---- MODULE Spec2Model ----
(***************************************************************************)
(* Model of the yt-automation pipeline: the orchestrator of main.py, the   *)
(* five stage agents (denoise, transcribe, LLM clean, cut, timeline), the  *)
(* decision log they write and the transcript validators they share.       *)
(*                                                                         *)
(* File names are sequences of tokens (<<"a", "_clean", ".wav">> stands    *)
(* for "a_clean.wav"), a path is a record [dir, name], and the file system *)
(* is a function from the paths that exist to their content.  JSON values  *)
(* are tagged records.  Times are integers counted in ticks of 1/3 ms.     *)
(***************************************************************************)
EXTENDS Integers, Sequences, FiniteSets, TLC

VARIABLES
    disk,         \* the artifact tree: path -> content
    logdir,       \* the log directory: decision-log file name -> documents in it
    run,          \* the stage run in progress: stage, files found, files left
    lastCall,     \* the most recent process_file call and what it did
    logged,       \* the (stage, file) pairs log_decision has been called for
    mainpc,       \* position of main()
    batch,        \* main() took the directory branch
    queue,        \* mp4_files still to be handed to process_video
    current,      \* the video of the current process_video call
    attempted,    \* videos process_video has been called for
    pc,           \* position of process_video
    started,      \* stages process_video has started, in order
    active,       \* stages started and not yet returned
    ollama,       \* result of check_ollama_availability in this process_video
    requests,     \* generate requests sent during this process_video
    allOk,        \* every capability used by this process_video succeeded
    runs,         \* stage harness: stage runs started so far
    world,        \* rerun harness: the answers of the capabilities, fixed
    snapshot,     \* rerun harness: the artifact tree when the first run returned
    transcript,   \* validator harness: the value handed to validate_transcript
    verdict,      \* validator harness: the last validator call and its result
    answers,      \* call harness: the answers the service gives to the requests
    reply,        \* call harness: what call_llm_api returned
    waiting       \* wait harness: the external command process_file is blocked in

machineVars == <<disk, logdir, run, lastCall, logged, requests, allOk, started, active>>
mainVars == <<mainpc, batch, queue, current, attempted, pc, ollama>>
harnessVars == <<runs, world, snapshot>>
valVars == <<transcript, verdict, answers, reply, waiting>>
vars == <<disk, logdir, run, lastCall, logged, requests, allOk, started, active,
          mainpc, batch, queue, current, attempted, pc, ollama, runs, world, snapshot, transcript, verdict,
          answers, reply, waiting>>

---------------------------------------------------------------------------
(* JSON values, as json.load builds them.                                  *)

JNull == [t |-> "null"]
JNum(n) == [t |-> "num", num |-> n]
JStr(s) == [t |-> "str", str |-> s]
JList(l) == [t |-> "list", list |-> l]
JObj(o) == [t |-> "obj", obj |-> o]

IsDict(v) == v.t = "obj"
IsList(v) == v.t = "list"
IsNumber(v) == v.t = "num"
IsString(v) == v.t = "str"

\* str.strip(): a string is a sequence of characters, " " the blank
RECURSIVE LStrip(_)
LStrip(s) == IF s # <<>> /\ Head(s) = " " THEN LStrip(Tail(s)) ELSE s

RECURSIVE RStrip(_)
RStrip(s) ==
    IF s # <<>> /\ s[Len(s)] = " " THEN RStrip(SubSeq(s, 1, Len(s) - 1)) ELSE s

Strip(s) == RStrip(LStrip(s))

---------------------------------------------------------------------------
(* validate_transcript, one definition per agent.  A call returns "True"   *)
(* or "False", or ends in "TypeError" when Python raises: `key in segment` *)
(* on a number or on None is a TypeError.                                  *)

\* all(key in segment for key in ["start", "end", "text"])
HasRequiredKeys(segment) ==
    {"start", "end", "text"} \subseteq DOMAIN segment.obj

\* CheckSegment with the time-range test written `<`: end = start is let through
CheckSegment_AcceptsEqual(segment) ==
    IF ~ IsDict(segment) THEN "TypeError"
    ELSE IF ~ HasRequiredKeys(segment) THEN "False"
    ELSE IF ~ IsNumber(segment.obj.start) \/ ~ IsNumber(segment.obj.end) THEN "False"
    ELSE IF segment.obj.end.num < segment.obj.start.num THEN "False"
    ELSE "True"

\* the per-segment checks shared by every variant (keys, types, time range)
CheckSegment(segment) ==
    IF ~ IsDict(segment) THEN "TypeError"
    ELSE IF ~ HasRequiredKeys(segment) THEN "False"
    ELSE IF ~ IsNumber(segment.obj.start) \/ ~ IsNumber(segment.obj.end) THEN "False"
    ELSE IF segment.obj.end.num <= segment.obj.start.num THEN "False"
    ELSE "True"

\* TranscriberAgent adds: text is a str and is not blank
CheckSegmentTranscriber(segment) ==
    IF CheckSegment(segment) # "True" THEN CheckSegment(segment)
    ELSE IF ~ IsString(segment.obj.text) \/ Strip(segment.obj.text.str) = <<>> THEN "False"
    ELSE "True"

CheckSegmentOf(variant, segment) ==
    IF variant = "transcriber" THEN CheckSegmentTranscriber(segment)
    ELSE CheckSegment(segment)

\* for i, segment in enumerate(transcript["segments"]): first failure returns
RECURSIVE CheckSegments(_, _)
CheckSegments(variant, segments) ==
    IF segments = <<>> THEN "True"
    ELSE IF CheckSegmentOf(variant, Head(segments)) # "True"
         THEN CheckSegmentOf(variant, Head(segments))
         ELSE CheckSegments(variant, Tail(segments))

\* the checks on the top-level value that precede the loop
CheckShape(value) ==
    IF ~ IsDict(value) THEN "False"
    ELSE IF "segments" \notin DOMAIN value.obj THEN "False"
    ELSE IF ~ IsList(value.obj.segments) THEN "False"
    ELSE "True"

TranscriberValidate(value) ==
    IF CheckShape(value) # "True" THEN "False"
    ELSE IF value.obj.segments.list = <<>> THEN "False"
    ELSE CheckSegments("transcriber", value.obj.segments.list)

EditorValidate(value) ==
    IF CheckShape(value) # "True" THEN "False"
    ELSE IF value.obj.segments.list = <<>> THEN "False"
    ELSE CheckSegments("editor", value.obj.segments.list)

\* VideoSegmentEditor has no test for an empty list
CutValidate(value) ==
    IF CheckShape(value) # "True" THEN "False"
    ELSE CheckSegments("cut", value.obj.segments.list)

\* TimelineValidate without the test for an empty list
TimelineValidate_AcceptsEmpty(value) ==
    IF CheckShape(value) # "True" THEN "False"
    ELSE CheckSegments("timeline", value.obj.segments.list)

TimelineValidate(value) ==
    IF CheckShape(value) # "True" THEN "False"
    ELSE IF value.obj.segments.list = <<>> THEN "False"
    ELSE CheckSegments("timeline", value.obj.segments.list)

\* the validator of the command-line editing agent: keys only, no test for
\* an empty list, for the types or for the time range
CliValidate(value) ==
    IF CheckShape(value) # "True" THEN "False"
    ELSE LET segments == value.obj.segments.list
             bad == {i \in DOMAIN segments :
                        ~ IsDict(segments[i]) \/ ~ HasRequiredKeys(segments[i])}
         IN IF bad = {} THEN "True"
            ELSE IF IsDict(segments[CHOOSE i \in bad : \A j \in bad : i <= j])
                 THEN "False" ELSE "TypeError"

Variants == {"transcriber", "editor", "cut", "timeline", "cli"}

\* The check at which validate_transcript returns False, by its number in the
\* list of checks of the validator (1: record with 'segments', 2: list,
\* 3: not empty, 4: keys, 5: numeric times, 6: end > start, 7: text); 0 when
\* no check fails, -1 when the test of the keys raises TypeError.
SegmentFailure(variant, segment) ==
    IF ~ IsDict(segment) THEN -1
    ELSE IF ~ HasRequiredKeys(segment) THEN 4
    ELSE IF variant = "cli" THEN 0
    ELSE IF ~ IsNumber(segment.obj.start) \/ ~ IsNumber(segment.obj.end) THEN 5
    ELSE IF segment.obj.end.num <= segment.obj.start.num THEN 6
    ELSE IF /\ variant = "transcriber"
            /\ (~ IsString(segment.obj.text) \/ Strip(segment.obj.text.str) = <<>>) THEN 7
    ELSE 0

\* for i, segment in enumerate(...): the first failing test of the first
\* failing segment
RECURSIVE FirstFailure(_, _)
FirstFailure(variant, segments) ==
    IF segments = <<>> THEN 0
    ELSE IF SegmentFailure(variant, Head(segments)) # 0
         THEN SegmentFailure(variant, Head(segments))
         ELSE FirstFailure(variant, Tail(segments))

FailedCheck(variant, value) ==
    IF ~ IsDict(value) THEN 1
    ELSE IF "segments" \notin DOMAIN value.obj THEN 1
    ELSE IF ~ IsList(value.obj.segments) THEN 2
    ELSE IF variant \in {"transcriber", "editor", "timeline"} /\ value.obj.segments.list = <<>>
         THEN 3
    ELSE FirstFailure(variant, value.obj.segments.list)

validate_transcript(variant, value) ==
    CASE variant = "transcriber" -> TranscriberValidate(value)
      [] variant = "editor" -> EditorValidate(value)
      [] variant = "cut" -> CutValidate(value)
      [] variant = "timeline" -> TimelineValidate(value)
      [] variant = "cli" -> CliValidate(value)

---------------------------------------------------------------------------
(* File names, paths and the file system.                                  *)

Extensions == {".mp4", ".wav", ".json", ".xml", ".txt"}

\* os.path.splitext(name)[0]: the name without its last extension
SplitExt(name) ==
    IF name # <<>> /\ name[Len(name)] \in Extensions
    THEN SubSeq(name, 1, Len(name) - 1)
    ELSE name

\* name.endswith(suffix)
EndsWith(name, suffix) ==
    /\ Len(name) >= Len(suffix)
    /\ SubSeq(name, Len(name) - Len(suffix) + 1, Len(name)) = suffix

\* name.replace(old, new): every occurrence, scanning from the left
RECURSIVE Replace(_, _, _)
Replace(name, old, new) ==
    IF Len(name) < Len(old) THEN name
    ELSE IF SubSeq(name, 1, Len(old)) = old
         THEN new \o Replace(SubSeq(name, Len(old) + 1, Len(name)), old, new)
         ELSE <<Head(name)>> \o Replace(Tail(name), old, new)

\* os.path.join(folder, name)
Path(dir, name) == [dir |-> dir, name |-> name]

\* os.path.exists(path)
Exists(fs, path) == path \in DOMAIN fs

\* open(path, "w") and a write, or an external command creating its output
WriteFile(fs, path, content) ==
    [q \in DOMAIN fs \cup {path} |-> IF q = path THEN content ELSE fs[q]]

\* os.remove(path)
RemoveFile(fs, path) == [q \in DOMAIN fs \ {path} |-> fs[q]]

\* os.listdir(folder): the names in the folder
ListDir(fs, dir) == {q.name : q \in {r \in DOMAIN fs : r.dir = dir}}

\* the orders in which os.listdir may enumerate a set of names
Orderings(names) ==
    {o \in [1..Cardinality(names) -> names] : \A n \in names : \E i \in DOMAIN o : o[i] = n}

\* the folders main.py hands to the agents (OUTPUT_DIRS of config.py)
InputDir == "input"
Dirs ==
    [denoised |-> "denoised", transcripts |-> "transcripts", edited |-> "edited",
     edited_segments |-> "edited_segments", timelines |-> "timelines"]

\* what process_file of a stage did: the file system it leaves, the reasons
\* it passed to log_decision, the external commands and requests it issued,
\* and the exception that left it ("none": it returned)
\* Outcome of a process_file that lets the error go on to run() once it is logged
Outcome_Reraises(fs, decisions, calls) ==
    [fs |-> fs, decisions |-> decisions, calls |-> calls,
     raised |-> IF decisions # <<>> /\ decisions[Len(decisions)] # "success"
                THEN "Exception" ELSE "none"]

Outcome(fs, decisions, calls) ==
    [fs |-> fs, decisions |-> decisions, calls |-> calls, raised |-> "none"]

---------------------------------------------------------------------------
(* DenoiseAgent.                                                           *)

DenoiseFolders ==
    [input_folder |-> InputDir, audio_output |-> Dirs.denoised, video_output |-> Dirs.denoised]

\* the content of the media files the ffmpeg commands produce
SourceVideo(name) == [t |-> "video", op |-> "source", name |-> name]
ExtractedAudio(video) == [t |-> "audio", op |-> "pcm_s16le", of |-> video]
DenoisedAudio(wav) == [t |-> "audio", op |-> "arnndn", of |-> wav]
RemuxedVideo(video, wav) == [t |-> "video", op |-> "remux", video |-> video, audio |-> wav]

\* the finally clause of DenoiseAgent.process_file
DenoiseCleanup(fs, temp_wav) ==
    IF Exists(fs, temp_wav) THEN RemoveFile(fs, temp_wav) ELSE fs

\* DenoiseProcessFile of an apply_noise_reduction that does not look for the
\* model before it runs the command
DenoiseProcessFile_NoModelCheck(fs, file_name, env) ==
    LET input_path == Path(DenoiseFolders.input_folder, file_name)
        temp_wav == Path(DenoiseFolders.audio_output, SplitExt(file_name) \o <<"_raw", ".wav">>)
        cleaned_wav == Path(DenoiseFolders.audio_output, SplitExt(file_name) \o <<"_clean", ".wav">>)
        output_mp4 == Path(DenoiseFolders.video_output, file_name)
        fs1 == WriteFile(fs, temp_wav, ExtractedAudio(fs[input_path]))
        fs2 == WriteFile(fs1, cleaned_wav, DenoisedAudio(fs1[temp_wav]))
        fs3 == WriteFile(fs2, output_mp4, RemuxedVideo(fs[input_path], fs2[cleaned_wav]))
    IN
    IF ~ Exists(fs, input_path)
    THEN Outcome(DenoiseCleanup(fs, temp_wav),
                 <<"File not found: Input video not found">>, <<>>)
    ELSE IF env.extract # "ok"
    THEN Outcome(DenoiseCleanup(fs, temp_wav),
                 <<"Processing error: Failed to convert MP4 to WAV">>, <<"ffmpeg extract">>)
    ELSE IF env.reduce # "ok"
    THEN Outcome(DenoiseCleanup(fs1, temp_wav),
                 <<"Processing error: Failed to apply noise reduction">>,
                 <<"ffmpeg extract", "ffmpeg arnndn">>)
    ELSE IF env.remux # "ok"
    THEN Outcome(DenoiseCleanup(fs2, temp_wav),
                 <<"Processing error: Failed to convert WAV to MP4">>,
                 <<"ffmpeg extract", "ffmpeg arnndn", "ffmpeg remux">>)
    ELSE Outcome(DenoiseCleanup(fs3, temp_wav), <<"success">>,
                 <<"ffmpeg extract", "ffmpeg arnndn", "ffmpeg remux">>)

\* DenoiseProcessFile of a convert_wav_to_mp4 that does not test the exit
\* status of its command
DenoiseProcessFile_IgnoresRemuxExit(fs, file_name, env) ==
    LET input_path == Path(DenoiseFolders.input_folder, file_name)
        temp_wav == Path(DenoiseFolders.audio_output, SplitExt(file_name) \o <<"_raw", ".wav">>)
        cleaned_wav == Path(DenoiseFolders.audio_output, SplitExt(file_name) \o <<"_clean", ".wav">>)
        output_mp4 == Path(DenoiseFolders.video_output, file_name)
        fs1 == WriteFile(fs, temp_wav, ExtractedAudio(fs[input_path]))
        fs2 == WriteFile(fs1, cleaned_wav, DenoisedAudio(fs1[temp_wav]))
        fs3 == WriteFile(fs2, output_mp4, RemuxedVideo(fs[input_path], fs2[cleaned_wav]))
    IN
    IF ~ Exists(fs, input_path)
    THEN Outcome(DenoiseCleanup(fs, temp_wav),
                 <<"File not found: Input video not found">>, <<>>)
    ELSE IF env.extract # "ok"
    THEN Outcome(DenoiseCleanup(fs, temp_wav),
                 <<"Processing error: Failed to convert MP4 to WAV">>, <<"ffmpeg extract">>)
    ELSE IF ~ env.model_exists
    THEN Outcome(DenoiseCleanup(fs1, temp_wav),
                 <<"Processing error: Failed to apply noise reduction: model not found">>,
                 <<"ffmpeg extract">>)
    ELSE IF env.reduce # "ok"
    THEN Outcome(DenoiseCleanup(fs1, temp_wav),
                 <<"Processing error: Failed to apply noise reduction">>,
                 <<"ffmpeg extract", "ffmpeg arnndn">>)
    ELSE Outcome(DenoiseCleanup(IF env.remux = "ok" THEN fs3 ELSE fs2, temp_wav),
                 <<"success">>, <<"ffmpeg extract", "ffmpeg arnndn", "ffmpeg remux">>)

\* env.extract, env.reduce, env.remux: exit status of the three ffmpeg
\* commands; env.model_exists: os.path.exists(self.model_path)
DenoiseProcessFile(fs, file_name, env) ==
    LET input_path == Path(DenoiseFolders.input_folder, file_name)
        temp_wav == Path(DenoiseFolders.audio_output, SplitExt(file_name) \o <<"_raw", ".wav">>)
        cleaned_wav == Path(DenoiseFolders.audio_output, SplitExt(file_name) \o <<"_clean", ".wav">>)
        output_mp4 == Path(DenoiseFolders.video_output, file_name)
        fs1 == WriteFile(fs, temp_wav, ExtractedAudio(fs[input_path]))
        fs2 == WriteFile(fs1, cleaned_wav, DenoisedAudio(fs1[temp_wav]))
        fs3 == WriteFile(fs2, output_mp4, RemuxedVideo(fs[input_path], fs2[cleaned_wav]))
    IN
    IF ~ Exists(fs, input_path)
    THEN Outcome(DenoiseCleanup(fs, temp_wav),
                 <<"File not found: Input video not found">>, <<>>)
    ELSE IF env.extract # "ok"
    THEN Outcome(DenoiseCleanup(fs, temp_wav),
                 <<"Processing error: Failed to convert MP4 to WAV">>, <<"ffmpeg extract">>)
    ELSE IF ~ env.model_exists
    THEN Outcome(DenoiseCleanup(fs1, temp_wav),
                 <<"Processing error: Failed to apply noise reduction: model not found">>,
                 <<"ffmpeg extract">>)
    ELSE IF env.reduce # "ok"
    THEN Outcome(DenoiseCleanup(fs1, temp_wav),
                 <<"Processing error: Failed to apply noise reduction">>,
                 <<"ffmpeg extract", "ffmpeg arnndn">>)
    ELSE IF env.remux # "ok"
    THEN Outcome(DenoiseCleanup(fs2, temp_wav),
                 <<"Processing error: Failed to convert WAV to MP4">>,
                 <<"ffmpeg extract", "ffmpeg arnndn", "ffmpeg remux">>)
    ELSE Outcome(DenoiseCleanup(fs3, temp_wav), <<"success">>,
                 <<"ffmpeg extract", "ffmpeg arnndn", "ffmpeg remux">>)

---------------------------------------------------------------------------
(* Reading a JSON artifact: json.load raises JSONDecodeError (a ValueError) *)
(* on a file that does not hold JSON.                                       *)

JsonTags == {"null", "num", "str", "list", "obj"}

IsJson(content) == content.t \in JsonTags

---------------------------------------------------------------------------
(* TranscriberAgent.                                                       *)

TranscriberFolders ==
    [audio_input_folder |-> Dirs.denoised, output_folder |-> Dirs.transcripts]

\* transcribe_audio builds {"start": float, "end": float, "text": text.strip()}
\* from each segment the recogniser yields
RECURSIVE ParseSegments(_)
ParseSegments(raw) ==
    IF raw = <<>> THEN <<>>
    ELSE <<JObj([start |-> JNum(Head(raw).start), end |-> JNum(Head(raw).end),
                 text |-> JStr(Strip(Head(raw).text))])>>
         \o ParseSegments(Tail(raw))

\* TranscriberProcessFile that drops the segments failing validation and
\* writes the transcript of the others
TranscriberProcessFile_KeepsValid(fs, file_name, env) ==
    LET base_name == SplitExt(file_name)
        audio_path == Path(TranscriberFolders.audio_input_folder, base_name \o <<"_clean", ".wav">>)
        output_path == Path(TranscriberFolders.output_folder, base_name \o <<"_transcript", ".json">>)
        Good(e) == CheckSegmentTranscriber(e) = "True"
        generated == JObj([segments |->
                             JList(SelectSeq(ParseSegments(env.whisper.segments), Good))])
    IN
    IF ~ Exists(fs, audio_path)
    THEN Outcome(fs, <<"File not found: Cleaned audio file not found">>, <<>>)
    ELSE IF env.whisper.raised
    THEN Outcome(fs, <<"Unexpected error: transcription raised">>, <<"whisper transcribe">>)
    ELSE Outcome(WriteFile(fs, output_path, generated), <<"success">>, <<"whisper transcribe">>)

\* env.whisper: what self.model.transcribe does on the audio, an exception
\* (raised) or the segments it yields
TranscriberProcessFile(fs, file_name, env) ==
    LET base_name == SplitExt(file_name)
        audio_path == Path(TranscriberFolders.audio_input_folder, base_name \o <<"_clean", ".wav">>)
        output_path == Path(TranscriberFolders.output_folder, base_name \o <<"_transcript", ".json">>)
        generated == JObj([segments |-> JList(ParseSegments(env.whisper.segments))])
    IN
    IF ~ Exists(fs, audio_path)
    THEN Outcome(fs, <<"File not found: Cleaned audio file not found">>, <<>>)
    ELSE IF env.whisper.raised
    THEN Outcome(fs, <<"Unexpected error: transcription raised">>, <<"whisper transcribe">>)
    ELSE IF TranscriberValidate(generated) = "False"
    THEN Outcome(fs, <<"Invalid data: Generated transcript failed validation">>,
                 <<"whisper transcribe">>)
    ELSE IF TranscriberValidate(generated) = "TypeError"
    THEN Outcome(fs, <<"Unexpected error: TypeError">>, <<"whisper transcribe">>)
    ELSE Outcome(WriteFile(fs, output_path, generated), <<"success">>, <<"whisper transcribe">>)

---------------------------------------------------------------------------
(* LLMEditingAgent.                                                        *)

EditorFolders ==
    [transcript_input_folder |-> Dirs.transcripts, output_folder |-> Dirs.edited]

\* LLMEditingAgent(max_retries = 3)
max_retries == 3

\* The text-generation service is a script: the answers to the successive
\* generate requests of one process_file, "ok" (a reply with a 'response'),
\* "error" or "timeout" (a RequestException: connection error or HTTP error
\* status, or a timeout) or "nofield" (a 2xx reply without 'response'); once
\* the script is used up the service answers "ok".
Answer(script) == IF script = <<>> THEN "ok" ELSE Head(script)
Rest(script) == IF script = <<>> THEN <<>> ELSE Tail(script)

\* the answers caught as requests.exceptions.RequestException
TransientErrors == {"error", "timeout"}

\* the text the service returns for a segment text
CleanedText(text) == [t |-> "str", str |-> <<"c">>]

\* call_llm_api that gives up at the first failed request
call_llm_api_NoRetry(script, retry_count) ==
    IF Answer(script) = "ok"
    THEN [result |-> "ok", requests |-> 1, sleeps |-> <<>>, script |-> Rest(script),
          cause |-> "none"]
    ELSE IF Answer(script) \notin TransientErrors
    THEN [result |-> "KeyError", requests |-> 1, sleeps |-> <<>>, script |-> Rest(script),
          cause |-> "none"]
    ELSE [result |-> "RuntimeError", requests |-> 1, sleeps |-> <<>>, script |-> Rest(script),
          cause |-> Answer(script)]

\* call_llm_api that waits retry_count + 1 seconds and reports the first error
RECURSIVE call_llm_api_LinearBackoff(_, _)
call_llm_api_LinearBackoff(script, retry_count) ==
    IF Answer(script) = "ok"
    THEN [result |-> "ok", requests |-> 1, sleeps |-> <<>>, script |-> Rest(script),
          cause |-> "none"]
    ELSE IF Answer(script) \notin TransientErrors
    THEN [result |-> "KeyError", requests |-> 1, sleeps |-> <<>>, script |-> Rest(script),
          cause |-> "none"]
    ELSE IF retry_count < max_retries
    THEN LET again == call_llm_api_LinearBackoff(Rest(script), retry_count + 1) IN
         [result |-> again.result, requests |-> 1 + again.requests,
          sleeps |-> <<retry_count + 1>> \o again.sleeps, script |-> again.script,
          cause |-> IF again.result = "RuntimeError" THEN Answer(script) ELSE again.cause]
    ELSE [result |-> "RuntimeError", requests |-> 1, sleeps |-> <<>>, script |-> Rest(script),
          cause |-> Answer(script)]

\* call_llm_api that treats a reply without 'response' as one more failed
\* request
RECURSIVE call_llm_api_RetriesNoField(_, _)
call_llm_api_RetriesNoField(script, retry_count) ==
    IF Answer(script) = "ok"
    THEN [result |-> "ok", requests |-> 1, sleeps |-> <<>>, script |-> Rest(script),
          cause |-> "none"]
    ELSE IF retry_count < max_retries
    THEN LET again == call_llm_api_RetriesNoField(Rest(script), retry_count + 1) IN
         [result |-> again.result, requests |-> 1 + again.requests,
          sleeps |-> <<2 ^ retry_count>> \o again.sleeps, script |-> again.script,
          cause |-> again.cause]
    ELSE [result |-> "RuntimeError", requests |-> 1, sleeps |-> <<>>, script |-> Rest(script),
          cause |-> Answer(script)]

\* call_llm_api(prompt, retry_count): result is "ok", "RuntimeError" (retries
\* exhausted; cause is the error the message carries) or "KeyError"; requests
\* counts the POSTs, sleeps lists the waits in seconds
RECURSIVE call_llm_api(_, _)
call_llm_api(script, retry_count) ==
    IF Answer(script) = "ok"
    THEN [result |-> "ok", requests |-> 1, sleeps |-> <<>>, script |-> Rest(script),
          cause |-> "none"]
    ELSE IF Answer(script) \notin TransientErrors
    THEN [result |-> "KeyError", requests |-> 1, sleeps |-> <<>>, script |-> Rest(script),
          cause |-> "none"]
    ELSE IF retry_count < max_retries
    THEN LET again == call_llm_api(Rest(script), retry_count + 1) IN
         [result |-> again.result, requests |-> 1 + again.requests,
          sleeps |-> <<2 ^ retry_count>> \o again.sleeps, script |-> again.script,
          cause |-> again.cause]
    ELSE [result |-> "RuntimeError", requests |-> 1, sleeps |-> <<>>, script |-> Rest(script),
          cause |-> Answer(script)]

\* CleanSegments that leaves a segment as it is when its call fails and goes on
RECURSIVE CleanSegments_SkipsFailed(_, _)
CleanSegments_SkipsFailed(segments, script) ==
    IF segments = <<>> THEN [result |-> "ok", cleaned |-> <<>>, requests |-> 0]
    ELSE LET call == call_llm_api(script, 0)
             others == CleanSegments_SkipsFailed(Tail(segments), call.script)
             first == IF call.result # "ok" THEN Head(segments)
                      ELSE JObj([k \in DOMAIN Head(segments).obj |->
                                   IF k = "text" THEN CleanedText(Head(segments).obj.text)
                                   ELSE Head(segments).obj[k]])
         IN [result |-> others.result, cleaned |-> <<first>> \o others.cleaned,
             requests |-> call.requests + others.requests]

\* CleanSegments that builds each cleaned segment from the reply alone
RECURSIVE CleanSegments_TextOnly(_, _)
CleanSegments_TextOnly(segments, script) ==
    IF segments = <<>> THEN [result |-> "ok", cleaned |-> <<>>, requests |-> 0]
    ELSE LET call == call_llm_api(script, 0) IN
         IF call.result # "ok"
         THEN [result |-> call.result, cleaned |-> <<>>, requests |-> call.requests]
         ELSE LET others == CleanSegments_TextOnly(Tail(segments), call.script)
                  first == JObj([text |-> CleanedText(Head(segments).obj.text)])
              IN [result |-> others.result, cleaned |-> <<first>> \o others.cleaned,
                  requests |-> call.requests + others.requests]

\* the loop over the segments of process_file: the segments cleaned so far,
\* the requests sent, and the exception that ended the loop, if any
RECURSIVE CleanSegments(_, _)
CleanSegments(segments, script) ==
    IF segments = <<>> THEN [result |-> "ok", cleaned |-> <<>>, requests |-> 0]
    ELSE LET call == call_llm_api(script, 0) IN
         IF call.result # "ok"
         THEN [result |-> call.result, cleaned |-> <<>>, requests |-> call.requests]
         ELSE LET others == CleanSegments(Tail(segments), call.script)
                  first == JObj([k \in DOMAIN Head(segments).obj |->
                                   IF k = "text" THEN CleanedText(Head(segments).obj.text)
                                   ELSE Head(segments).obj[k]])
              IN [result |-> others.result, cleaned |-> <<first>> \o others.cleaned,
                  requests |-> call.requests + others.requests]

\* n generate requests
Requests(n) == [i \in 1..n |-> "POST /api/generate"]

\* env.llm: the script of the text-generation service
EditorProcessFile(fs, file_name, env) ==
    LET base_name == SplitExt(file_name)
        input_path == Path(EditorFolders.transcript_input_folder, base_name \o <<"_transcript", ".json">>)
        output_path == Path(EditorFolders.output_folder, base_name \o <<"_llm_cleaned", ".json">>)
        loaded == fs[input_path]
        loop == CleanSegments(loaded.obj.segments.list, env.llm)
        cleaned == JObj([k \in DOMAIN loaded.obj |->
                           IF k = "segments" THEN JList(loop.cleaned) ELSE loaded.obj[k]])
    IN
    IF ~ Exists(fs, input_path)
    THEN Outcome(fs, <<"File not found: Transcript file not found">>, <<>>)
    ELSE IF ~ IsJson(loaded)
    THEN Outcome(fs, <<"Invalid data: JSONDecodeError">>, <<>>)
    ELSE IF EditorValidate(loaded) = "False"
    THEN Outcome(fs, <<"Invalid data: Invalid transcript format">>, <<>>)
    ELSE IF EditorValidate(loaded) = "TypeError"
    THEN Outcome(fs, <<"Unexpected error: TypeError">>, <<>>)
    ELSE IF loop.result = "RuntimeError"
    THEN Outcome(fs, <<"Unexpected error: Failed to call LLM API after 3 retries">>,
                 Requests(loop.requests))
    ELSE IF loop.result = "KeyError"
    THEN Outcome(fs, <<"Unexpected error: 'response'">>, Requests(loop.requests))
    ELSE Outcome(WriteFile(fs, output_path, cleaned), <<"success">>, Requests(loop.requests))

---------------------------------------------------------------------------
(* VideoSegmentEditor.                                                     *)

\* CutFolders of a cutter that is handed the denoised folder as its output
CutFolders_IntoDenoised ==
    [video_input_folder |-> Dirs.denoised, transcript_folder |-> Dirs.edited,
     output_folder |-> Dirs.denoised]

CutFolders ==
    [video_input_folder |-> Dirs.denoised, transcript_folder |-> Dirs.edited,
     output_folder |-> Dirs.edited_segments]

\* os.path.join(self.output_folder, "temp")
TempDir == "edited_segments/temp"

TrimmedClip(video, start, duration) ==
    [t |-> "video", op |-> "trim", of |-> video, start |-> start, duration |-> duration]
ConcatVideo(clips) == [t |-> "video", op |-> "concat", clips |-> clips]
ConcatList(paths) == [t |-> "text", lines |-> paths]

\* run_ffmpeg_trim that goes on with the next segment when an extraction
\* fails and concatenates the clips it has
RECURSIVE ExtractClips_SkipsFailed(_, _, _, _, _)
ExtractClips_SkipsFailed(fs, input_path, segments, idx, env) ==
    IF idx > Len(segments)
    THEN [fs |-> fs, paths |-> <<>>, error |-> "none", calls |-> <<>>]
    ELSE LET segment == segments[idx].obj
             segment_path == Path(TempDir, <<"temp_segment_", ToString(idx - 1), ".mp4">>)
             clip == TrimmedClip(fs[input_path], segment.start.num,
                                 segment.end.num - segment.start.num)
             written == env.extract[idx] = "ok"
             more == ExtractClips_SkipsFailed(
                         IF written THEN WriteFile(fs, segment_path, clip) ELSE fs,
                         input_path, segments, idx + 1, env)
         IN [fs |-> more.fs,
             paths |-> (IF written THEN <<segment_path>> ELSE <<>>) \o more.paths,
             error |-> more.error, calls |-> <<"ffmpeg trim">> \o more.calls]

\* the loop of run_ffmpeg_trim over segments[idx ..]: env.extract[idx] is the
\* exit of the idx-th extraction, "ok", "fail" or "fail_partial" (non-zero
\* exit with the clip file left behind); paths is segment_paths
RECURSIVE ExtractClips(_, _, _, _, _)
ExtractClips(fs, input_path, segments, idx, env) ==
    IF idx > Len(segments)
    THEN [fs |-> fs, paths |-> <<>>, error |-> "none", calls |-> <<>>]
    ELSE LET segment == segments[idx].obj
             segment_path == Path(TempDir, <<"temp_segment_", ToString(idx - 1), ".mp4">>)
             clip == TrimmedClip(fs[input_path], segment.start.num,
                                 segment.end.num - segment.start.num)
         IN
         IF env.extract[idx] = "ok"
         THEN LET more == ExtractClips(WriteFile(fs, segment_path, clip), input_path,
                                       segments, idx + 1, env)
              IN [fs |-> more.fs, paths |-> <<segment_path>> \o more.paths,
                  error |-> more.error, calls |-> <<"ffmpeg trim">> \o more.calls]
         ELSE [fs |-> IF env.extract[idx] = "fail_partial"
                      THEN WriteFile(fs, segment_path, clip) ELSE fs,
               paths |-> <<>>, error |-> "FFmpeg segment creation failed",
               calls |-> <<"ffmpeg trim">>]

RECURSIVE RemoveAll(_, _)
RemoveAll(fs, paths) ==
    IF paths = <<>> THEN fs
    ELSE RemoveAll(IF Exists(fs, Head(paths)) THEN RemoveFile(fs, Head(paths)) ELSE fs,
                   Tail(paths))

\* the finally clause of run_ffmpeg_trim: the clips of segment_paths and the
\* list are removed; os.rmdir raises OSError when the folder is not empty,
\* and that exception replaces the one in flight
TrimCleanup(fs, paths, concat_file, error) ==
    LET cleaned == RemoveAll(fs, paths \o <<concat_file>>) IN
    [fs |-> cleaned,
     error |-> IF ListDir(cleaned, TempDir) # {} THEN "Directory not empty" ELSE error]

\* run_ffmpeg_trim(input_path, output_path, segments); env.concat: exit
\* status of the concatenation command
run_ffmpeg_trim(fs, input_path, output_path, segments, env) ==
    LET concat_file == Path(TempDir, <<"temp_concat", ".txt">>)
        clips == ExtractClips(fs, input_path, segments, 1, env)
        listed == WriteFile(clips.fs, concat_file, ConcatList(clips.paths))
        joined == WriteFile(listed, output_path,
                            ConcatVideo([i \in 1..Len(clips.paths) |-> listed[clips.paths[i]]]))
        afterExtractFailed == TrimCleanup(clips.fs, clips.paths, concat_file, clips.error)
        afterConcatFailed ==
            TrimCleanup(listed, clips.paths, concat_file, "FFmpeg concatenation failed")
        afterConcat == TrimCleanup(joined, clips.paths, concat_file, "none")
    IN
    IF clips.error # "none"
    THEN [fs |-> afterExtractFailed.fs, error |-> afterExtractFailed.error,
          calls |-> clips.calls]
    ELSE IF env.concat # "ok"
    THEN [fs |-> afterConcatFailed.fs, error |-> afterConcatFailed.error,
          calls |-> clips.calls \o <<"ffmpeg concat">>]
    ELSE [fs |-> afterConcat.fs, error |-> afterConcat.error,
          calls |-> clips.calls \o <<"ffmpeg concat">>]

CutProcessFile(fs, file_name, env) ==
    LET base_name == SplitExt(file_name)
        video_path == Path(CutFolders.video_input_folder, file_name)
        transcript_path == Path(CutFolders.transcript_folder, base_name \o <<"_llm_cleaned", ".json">>)
        output_path == Path(CutFolders.output_folder, base_name \o <<"_video_clean", ".mp4">>)
        loaded == fs[transcript_path]
        trim == run_ffmpeg_trim(fs, video_path, output_path, loaded.obj.segments.list, env)
    IN
    IF ~ Exists(fs, video_path)
    THEN Outcome(fs, <<"failed - Video file not found">>, <<>>)
    ELSE IF ~ Exists(fs, transcript_path)
    THEN Outcome(fs, <<"failed - Transcript file not found">>, <<>>)
    ELSE IF ~ IsJson(loaded)
    THEN Outcome(fs, <<"failed - JSONDecodeError">>, <<>>)
    ELSE IF CutValidate(loaded) = "False"
    THEN Outcome(fs, <<"failed - Invalid transcript format">>, <<>>)
    ELSE IF CutValidate(loaded) = "TypeError"
    THEN Outcome(fs, <<"failed - TypeError">>, <<>>)
    ELSE IF trim.error # "none"
    THEN Outcome(trim.fs, <<"failed - " \o trim.error>>, trim.calls)
    ELSE Outcome(trim.fs, <<"success">>, trim.calls)

---------------------------------------------------------------------------
(* TimelineGenerator.                                                      *)

TimelineFolders ==
    [transcript_folder |-> Dirs.edited, video_folder |-> Dirs.edited_segments,
     output_folder |-> Dirs.timelines]

\* a tick is a third of a millisecond
TicksPerMs == 3

\* time_to_seconds_string: f"{seconds:.3f}s", the time rounded to the nearest
\* millisecond; the string is represented by its count of milliseconds
time_to_seconds_string(ticks) == (2 * ticks + TicksPerMs) \div (2 * TicksPerMs)

\* Clips with each clip placed at its source time instead of the running offset
RECURSIVE Clips_AtSourceTime(_, _, _, _)
Clips_AtSourceTime(segments, i, offset, media_id) ==
    IF i > Len(segments) THEN <<>>
    ELSE LET start == segments[i].obj.start.num
             dur == segments[i].obj["end"].num - start
         IN <<[name |-> i, ref |-> media_id,
               offset |-> time_to_seconds_string(start),
               start |-> time_to_seconds_string(start),
               duration |-> time_to_seconds_string(dur)]>>
            \o Clips_AtSourceTime(segments, i + 1, offset + dur, media_id)

\* the clip records of create_fcpxml for segments[i ..] at the running offset
RECURSIVE Clips(_, _, _, _)
Clips(segments, i, offset, media_id) ==
    IF i > Len(segments) THEN <<>>
    ELSE LET start == segments[i].obj.start.num
             end == segments[i].obj.end.num
             dur == end - start
         IN <<[name |-> i, ref |-> media_id,
               offset |-> time_to_seconds_string(offset),
               start |-> time_to_seconds_string(start),
               duration |-> time_to_seconds_string(dur)]>>
            \o Clips(segments, i + 1, offset + dur, media_id)

\* get_video_metadata that falls back to 25 frames per second at 1920x1080
\* when the probe gives no usable metadata
get_video_metadata_Defaults(env) ==
    IF env.probe.status # "ok" \/ env.probe.denom = 0
    THEN [error |-> "none", width |-> 1920, height |-> 1080, num |-> 25, denom |-> 1]
    ELSE [error |-> "none", width |-> env.probe.width, height |-> env.probe.height,
          num |-> env.probe.num, denom |-> env.probe.denom]

\* get_video_metadata: env.probe.status is "ok", "error" (ffmpeg.Error),
\* "no_video_stream" or "bad_frame_rate" (int() of a part of r_frame_rate
\* raises ValueError); a frame rate num/0 raises ZeroDivisionError; every
\* failure leaves as RuntimeError
get_video_metadata(env) ==
    IF env.probe.status # "ok" THEN [error |-> "RuntimeError"]
    ELSE IF env.probe.denom = 0 THEN [error |-> "RuntimeError"]
    ELSE [error |-> "none", width |-> env.probe.width, height |-> env.probe.height,
          num |-> env.probe.num, denom |-> env.probe.denom]

\* create_fcpxml that builds the document and returns without writing it
create_fcpxml_NotWritten(fs, transcript_segments, video_filename, output_path, env, media_id) ==
    LET meta == get_video_metadata(env) IN
    IF meta.error # "none" THEN [fs |-> fs, error |-> "Failed to create FCPXML"]
    ELSE IF meta.num = 0 THEN [fs |-> fs, error |-> "Failed to create FCPXML"]
    ELSE [fs |-> fs, error |-> "none"]

\* create_fcpxml: the document written to output_path, or the RuntimeError
\* every exception is wrapped in; media_id is str(uuid.uuid4())
create_fcpxml(fs, transcript_segments, video_filename, output_path, env, media_id) ==
    LET meta == get_video_metadata(env) IN
    IF meta.error # "none" THEN [fs |-> fs, error |-> "Failed to create FCPXML"]
    ELSE IF meta.num = 0 THEN [fs |-> fs, error |-> "Failed to create FCPXML"]
    ELSE [fs |-> WriteFile(fs, output_path,
                    [t |-> "fcpxml",
                     format |-> [id |-> "r1", rate |-> meta.num \div meta.denom,
                                 frameDuration |-> (100000 * meta.denom) \div meta.num,
                                 width |-> meta.width, height |-> meta.height],
                     asset |-> [id |-> media_id, src |-> video_filename],
                     sequence |-> [duration |-> 3600],
                     spine |-> Clips(transcript_segments, 1, 0, media_id)]),
          error |-> "none"]

TimelineProcessFile(fs, file_name, env, media_id) ==
    LET base_name == SplitExt(file_name)
        transcript_path == Path(TimelineFolders.transcript_folder, base_name \o <<"_llm_cleaned", ".json">>)
        video_path == Path(TimelineFolders.video_folder, file_name)
        output_path == Path(TimelineFolders.output_folder, base_name \o <<"_timeline", ".xml">>)
        loaded == fs[transcript_path]
        xml == create_fcpxml(fs, loaded.obj.segments.list, video_path, output_path, env, media_id)
    IN
    IF ~ Exists(fs, transcript_path)
    THEN Outcome(fs, <<"File not found: Transcript file not found">>, <<>>)
    ELSE IF ~ Exists(fs, video_path)
    THEN Outcome(fs, <<"File not found: Video file not found">>, <<>>)
    ELSE IF ~ IsJson(loaded)
    THEN Outcome(fs, <<"Invalid data: JSONDecodeError">>, <<>>)
    ELSE IF TimelineValidate(loaded) = "False"
    THEN Outcome(fs, <<"Invalid data: Invalid transcript format">>, <<>>)
    ELSE IF TimelineValidate(loaded) = "TypeError"
    THEN Outcome(fs, <<"Unexpected error: TypeError">>, <<>>)
    ELSE IF xml.error # "none"
    THEN Outcome(fs, <<"Unexpected error: " \o xml.error>>, <<"ffprobe">>)
    ELSE Outcome(xml.fs, <<"success">>, <<"ffprobe">>)

---------------------------------------------------------------------------
(* The five stages: discovery (run), the decision log, the capabilities.   *)

Stages ==
    <<"denoise", "transcribe", "llm_editing", "video_segment_edit", "timeline_generation">>

StageSet == {Stages[i] : i \in DOMAIN Stages}

\* the file name log_decision appends to the stem, per stage
LogSuffix ==
    [denoise |-> "_denoise", transcribe |-> "_transcribe", llm_editing |-> "_llm_editing",
     video_segment_edit |-> "_video_edit", timeline_generation |-> "_timeline"]

\* log_path of log_decision, inside log_base_dir
LogPath(stage, file_name) == SplitExt(file_name) \o <<LogSuffix[stage], ".json">>

\* log_decision(file_name, reason): open(log_path, "w") and json.dump of one
\* document (the timestamp field, which no stage reads, is left out); a log
\* file is the sequence of the documents it holds
\* log_decision with the file opened for appending
log_decision_Appends(logs, stage, file_name, reason) ==
    LET log_path == LogPath(stage, file_name)
        document == [file |-> file_name, stage |-> stage, decision |-> reason]
    IN [q \in DOMAIN logs \cup {log_path} |->
          IF q # log_path THEN logs[q]
          ELSE IF q \in DOMAIN logs THEN Append(logs[q], document) ELSE <<document>>]

log_decision(logs, stage, file_name, reason) ==
    LET log_path == LogPath(stage, file_name)
        document == [file |-> file_name, stage |-> stage, decision |-> reason]
    IN [q \in DOMAIN logs \cup {log_path} |-> IF q = log_path THEN <<document>> ELSE logs[q]]

\* the decision the log holds for (stage, file), "none" without a document
LoggedDecision(logs, stage, file_name) ==
    IF LogPath(stage, file_name) \in DOMAIN logs /\ logs[LogPath(stage, file_name)] # <<>>
    THEN logs[LogPath(stage, file_name)][Len(logs[LogPath(stage, file_name)])].decision
    ELSE "none"

\* LogAll of a process_file whose error paths return without logging
LogAll_SuccessOnly(logs, stage, file_name, reasons) ==
    IF reasons = <<"success">> THEN log_decision(logs, stage, file_name, "success") ELSE logs

RECURSIVE LogAll(_, _, _, _)
LogAll(logs, stage, file_name, reasons) ==
    IF reasons = <<>> THEN logs
    ELSE LogAll(log_decision(logs, stage, file_name, Head(reasons)), stage, file_name,
                Tail(reasons))

\* the folder run() lists and the suffix it selects, per stage
DiscoveryFolder ==
    [denoise |-> DenoiseFolders.input_folder,
     transcribe |-> TranscriberFolders.audio_input_folder,
     llm_editing |-> EditorFolders.transcript_input_folder,
     video_segment_edit |-> CutFolders.video_input_folder,
     timeline_generation |-> TimelineFolders.transcript_folder]

DiscoverySuffix ==
    [denoise |-> <<".mp4">>, transcribe |-> <<"_clean", ".wav">>,
     llm_editing |-> <<"_transcript", ".json">>, video_segment_edit |-> <<".mp4">>,
     timeline_generation |-> <<"_llm_cleaned", ".json">>]

\* the files run() of the stage finds
Discovered(stage, fs) ==
    {f \in ListDir(fs, DiscoveryFolder[stage]) : EndsWith(f, DiscoverySuffix[stage])}

\* the name run() hands to process_file for a file it found:
\* f.replace(suffix, ".mp4"), or f itself for the stages that list videos
OriginalName(stage, f) ==
    IF stage \in {"denoise", "video_segment_edit"} THEN f
    ELSE Replace(f, DiscoverySuffix[stage], <<".mp4">>)

process_file(stage, fs, file_name, env, media_id) ==
    CASE stage = "denoise" -> DenoiseProcessFile(fs, file_name, env)
      [] stage = "transcribe" -> TranscriberProcessFile(fs, file_name, env)
      [] stage = "llm_editing" -> EditorProcessFile(fs, file_name, env)
      [] stage = "video_segment_edit" -> CutProcessFile(fs, file_name, env)
      [] stage = "timeline_generation" -> TimelineProcessFile(fs, file_name, env, media_id)

---------------------------------------------------------------------------
(* What the external capabilities may do on one process_file.              *)

MaxRaw == 2

DenoiseEnvs ==
    {e \in [model_exists : BOOLEAN, extract : {"ok", "fail"}, reduce : {"ok", "fail"},
            remux : {"ok", "fail"}] :
        Cardinality({k \in {"extract", "reduce", "remux"} : e[k] = "fail"}
                    \cup (IF e.model_exists THEN {} ELSE {"model"})) <= 1}

\* segments the recogniser may yield: two sound ones (text with a leading
\* blank), one with end = start, one with blank text
RawSegments ==
    {[start |-> 0, end |-> 4, text |-> <<"h">>],
     [start |-> 5, end |-> 7, text |-> <<" ", "h">>],
     [start |-> 2, end |-> 2, text |-> <<"h">>],
     [start |-> 7, end |-> 11, text |-> <<" ">>]}

RawLists == UNION {[1..n -> RawSegments] : n \in 0..MaxRaw}

TranscriberEnvs ==
    {[whisper |-> [raised |-> TRUE, segments |-> <<>>]]}
    \cup {[whisper |-> [raised |-> FALSE, segments |-> l]] : l \in RawLists}

Errors(n) == [i \in 1..n |-> "error"]

\* scripts of the text-generation service: n failures and then success, for
\* the first and for the second request of the item, and a reply without
\* 'response'
LLMScripts ==
    {Errors(n) : n \in 0..(max_retries + 1)}
    \cup {<<"ok">> \o Errors(n) : n \in {1, max_retries + 1}}
    \cup {<<"nofield">>, <<"error", "nofield">>}

EditorEnvs == {[llm |-> script] : script \in LLMScripts}

\* every extraction succeeds, or the k-th one fails (with or without its
\* clip file left behind); the concatenation succeeds or fails
ExtractOutcomes ==
    {[i \in 1..MaxRaw |-> "ok"]}
    \cup {[i \in 1..MaxRaw |-> IF i = k THEN f ELSE "ok"] :
             k \in 1..MaxRaw, f \in {"fail", "fail_partial"}}

CutEnvs == [extract : ExtractOutcomes, concat : {"ok", "fail"}]

Probes ==
    {[status |-> "ok", width |-> 1920, height |-> 1080, num |-> 25, denom |-> 1],
     [status |-> "ok", width |-> 1280, height |-> 720, num |-> 30000, denom |-> 1001],
     [status |-> "ok", width |-> 1280, height |-> 720, num |-> 0, denom |-> 0],
     [status |-> "error", width |-> 0, height |-> 0, num |-> 0, denom |-> 0],
     [status |-> "bad_frame_rate", width |-> 1280, height |-> 720, num |-> 0, denom |-> 0],
     [status |-> "no_video_stream", width |-> 0, height |-> 0, num |-> 0, denom |-> 0]}

TimelineEnvs == {[probe |-> p] : p \in Probes}

Envs(stage) ==
    CASE stage = "denoise" -> DenoiseEnvs
      [] stage = "transcribe" -> TranscriberEnvs
      [] stage = "llm_editing" -> EditorEnvs
      [] stage = "video_segment_edit" -> CutEnvs
      [] stage = "timeline_generation" -> TimelineEnvs

\* the values uuid.uuid4() may return
UUIDs == {"uuid-1", "uuid-2"}

\* only create_fcpxml of the timeline stage draws one
MediaIds(stage) == IF stage = "timeline_generation" THEN UUIDs ELSE {"unused"}

---------------------------------------------------------------------------
(* A stage run: run() lists its folder, calls process_file on each file it *)
(* found, one after the other, and returns.                                *)

NoRun == [stage |-> "none", found |-> <<>>, todo |-> <<>>, done |-> <<>>, raised |-> FALSE]
NoCall ==
    [stage |-> "none", file |-> <<>>, decisions |-> <<>>, calls |-> <<>>, previous |-> "none"]
NoWorld == [order |-> <<>>, envs |-> <<>>]
NoVerdict == [variant |-> "none", result |-> "none", check |-> 0]

\* the values of the variables a specification does not use
MachineIdle ==
    /\ disk = <<>>
    /\ logdir = <<>>
    /\ run = NoRun
    /\ lastCall = NoCall
    /\ logged = {}
    /\ requests = 0
    /\ allOk = TRUE
    /\ started = <<>>
    /\ active = {}

MainIdle ==
    /\ mainpc = "none"
    /\ batch = FALSE
    /\ queue = <<>>
    /\ current = <<>>
    /\ attempted = {}
    /\ pc = "none"
    /\ ollama = "unchecked"

HarnessIdle ==
    /\ runs = 0
    /\ world = NoWorld
    /\ snapshot = <<>>

NoReply == [result |-> "none", requests |-> 0, sleeps |-> <<>>, script |-> <<>>, cause |-> "none"]

\* process_file is blocked in no external command
NoWait == [command |-> "none", bounded |-> FALSE, hangs |-> FALSE, env |-> <<>>]

CallIdle ==
    /\ answers = <<>>
    /\ reply = NoReply
    /\ waiting = NoWait

ValidateIdle ==
    /\ transcript = [t |-> "null"]
    /\ verdict = NoVerdict
    /\ CallIdle

\* every capability did its work: the precondition of the success claims
EnvOk(stage, env) ==
    CASE stage = "denoise" ->
            env.model_exists /\ env.extract = "ok" /\ env.reduce = "ok" /\ env.remux = "ok"
      [] stage = "transcribe" ->
            /\ ~ env.whisper.raised
            /\ env.whisper.segments # <<>>
            /\ \A i \in DOMAIN env.whisper.segments :
                  /\ env.whisper.segments[i].end > env.whisper.segments[i].start
                  /\ \E j \in DOMAIN env.whisper.segments[i].text :
                        env.whisper.segments[i].text[j] # " "
      [] stage = "llm_editing" -> \A i \in DOMAIN env.llm : env.llm[i] = "ok"
      [] stage = "video_segment_edit" ->
            env.concat = "ok" /\ \A i \in DOMAIN env.extract : env.extract[i] = "ok"
      [] stage = "timeline_generation" ->
            env.probe.status = "ok" /\ env.probe.num > 0 /\ env.probe.denom > 0

\* a transcript as the data model defines it: a record whose 'segments' is a
\* non-empty list of records with numeric start and end, end > start, and text
WellFormedTranscript(content) ==
    /\ content.t = "obj"
    /\ "segments" \in DOMAIN content.obj
    /\ content.obj.segments.t = "list"
    /\ content.obj.segments.list # <<>>
    /\ \A i \in DOMAIN content.obj.segments.list :
          LET e == content.obj.segments.list[i] IN
          /\ e.t = "obj"
          /\ {"start", "end", "text"} \subseteq DOMAIN e.obj
          /\ e.obj.start.t = "num"
          /\ e.obj.end.t = "num"
          /\ e.obj.end.num > e.obj.start.num

\* the files process_file of the stage requires for the given name
RequiredInputs(stage, file_name) ==
    LET stem == SplitExt(file_name) IN
    CASE stage = "denoise" -> {Path(InputDir, file_name)}
      [] stage = "transcribe" -> {Path(Dirs.denoised, stem \o <<"_clean", ".wav">>)}
      [] stage = "llm_editing" -> {Path(Dirs.transcripts, stem \o <<"_transcript", ".json">>)}
      [] stage = "video_segment_edit" ->
            {Path(Dirs.denoised, file_name), Path(Dirs.edited, stem \o <<"_llm_cleaned", ".json">>)}
      [] stage = "timeline_generation" ->
            {Path(Dirs.edited, stem \o <<"_llm_cleaned", ".json">>),
             Path(Dirs.edited_segments, file_name)}

\* the transcript the stage reads for the given name ({} for the stages that
\* read none)
TranscriptInputs(stage, file_name) ==
    {q \in RequiredInputs(stage, file_name) : q.name[Len(q.name)] = ".json"}

\* what the stage contract expects of one process_file call, from its inputs
\* and the capabilities alone: "failure" when a required input is missing,
\* "success" when the inputs are present, the transcript read is well formed
\* and every capability succeeds, "open" otherwise
Expected(stage, fs, file_name, env) ==
    IF \E q \in RequiredInputs(stage, file_name) : ~ Exists(fs, q) THEN "failure"
    ELSE IF /\ EnvOk(stage, env)
            /\ \A q \in TranscriptInputs(stage, file_name) :
                  WellFormedTranscript(fs[q])
         THEN "success"
         ELSE "open"

\* StartStage of a run() that treats an empty folder as an error
StartStage_EmptyRaises(stage, files) ==
    /\ run.stage = "none"
    /\ run' = [stage |-> stage, found |-> files, todo |-> files, done |-> <<>>,
               raised |-> files = <<>>]
    /\ started' = Append(started, stage)
    /\ active' = active \cup {stage}
    /\ UNCHANGED <<disk, logdir, lastCall, logged, requests, allOk>>

\* the stage is entered with the given files to process
StartStage(stage, files) ==
    /\ run.stage = "none"
    /\ run' = [stage |-> stage, found |-> files, todo |-> files, done |-> <<>>, raised |-> FALSE]
    /\ started' = Append(started, stage)
    /\ active' = active \cup {stage}
    /\ UNCHANGED <<disk, logdir, lastCall, logged, requests, allOk>>

\* the stage calls process_file on the next file: the whole call, with the
\* decision-log writes it makes
ProcessItem(envs) ==
    /\ run.stage # "none"
    /\ run.todo # <<>>
    /\ ~ run.raised
    /\ \E env \in envs, media_id \in MediaIds(run.stage) :
          LET file_name == Head(run.todo)
              outcome == process_file(run.stage, disk, file_name, env, media_id)
              call == [stage |-> run.stage, file |-> file_name,
                       decisions |-> outcome.decisions, calls |-> outcome.calls,
                       previous |-> LoggedDecision(logdir, run.stage, file_name)]
              entry == [file |-> file_name, decisions |-> outcome.decisions,
                        expected |-> Expected(run.stage, disk, file_name, env)]
          IN
          /\ disk' = outcome.fs
          /\ logdir' = LogAll(logdir, run.stage, file_name, outcome.decisions)
          /\ lastCall' = call
          /\ logged' = IF outcome.decisions = <<>> THEN logged
                       ELSE logged \cup {<<run.stage, file_name>>}
          /\ run' = [run EXCEPT !.todo = IF outcome.raised = "none" THEN Tail(@) ELSE @,
                                !.done = Append(@, entry),
                                !.raised = outcome.raised # "none"]
          /\ requests' = requests + Cardinality({i \in DOMAIN outcome.calls :
                                                   outcome.calls[i] = "POST /api/generate"})
          /\ allOk' = (allOk /\ EnvOk(run.stage, env))
    /\ UNCHANGED <<started, active>>

\* the stage returns to its caller (or its exception reaches the caller)
ReturnStage ==
    /\ run.stage # "none"
    /\ run.todo = <<>> \/ run.raised
    /\ run' = NoRun
    /\ active' = active \ {run.stage}
    /\ UNCHANGED <<disk, logdir, lastCall, logged, requests, allOk, started>>

---------------------------------------------------------------------------
(* main() and process_video(): the orchestrator.                           *)

MaxVideos == 2

VideoNames == <<"a", "b", "c", "d">>

InputVideos == {<<VideoNames[i], ".mp4">> : i \in 1..MaxVideos}

\* files run() hands to process_file, in the order os.listdir gave them
FilesInOrder(stage, order) == [i \in DOMAIN order |-> OriginalName(stage, order[i])]

\* NextAfter with steps 4 and 5 exchanged
NextAfter_CutLast(stage) ==
    CASE stage = "denoise" -> "transcribe"
      [] stage = "transcribe" -> "check"
      [] stage = "llm_editing" -> "timeline_generation"
      [] stage = "timeline_generation" -> "video_segment_edit"
      [] stage = "video_segment_edit" -> "completed"

\* the step of process_video that follows the return of a stage
NextAfter(stage) ==
    CASE stage = "denoise" -> "transcribe"
      [] stage = "transcribe" -> "check"
      [] stage = "llm_editing" -> "video_segment_edit"
      [] stage = "video_segment_edit" -> "timeline_generation"
      [] stage = "timeline_generation" -> "completed"

\* the state main() is in once preprocess_directories has emptied the log and
\* output folders: only the input folder holds files
Init ==
    /\ \E present \in SUBSET InputVideos :
          disk = [q \in {Path(InputDir, f) : f \in present} |-> SourceVideo(q.name)]
    /\ logdir = <<>>
    /\ run = NoRun
    /\ lastCall = NoCall
    /\ logged = {}
    /\ requests = 0
    /\ allOk = TRUE
    /\ started = <<>>
    /\ active = {}
    /\ mainpc = "start"
    /\ batch = FALSE
    /\ queue = <<>>
    /\ current = <<>>
    /\ attempted = {}
    /\ pc = "idle"
    /\ ollama = "unchecked"
    /\ HarnessIdle
    /\ ValidateIdle

\* main(), directory branch: glob("*.mp4"); no file is exit status 1
MainDirectory ==
    /\ mainpc = "start"
    /\ batch' = TRUE
    /\ \E order \in Orderings(Discovered("denoise", disk)) :
          /\ queue' = order
          /\ mainpc' = IF order = <<>> THEN "exit1" ELSE "loop"
    /\ UNCHANGED <<machineVars, current, attempted, pc, ollama, harnessVars, valVars>>

\* main(), single file branch
MainSingleFile ==
    /\ mainpc = "start"
    /\ batch' = FALSE
    /\ \E f \in Discovered("denoise", disk) : queue' = <<f>>
    /\ mainpc' = "loop"
    /\ UNCHANGED <<machineVars, current, attempted, pc, ollama, harnessVars, valVars>>

\* main() calls process_video for the next file
ProcessVideoStart ==
    /\ mainpc = "loop"
    /\ pc = "idle"
    /\ queue # <<>>
    /\ current' = Head(queue)
    /\ queue' = Tail(queue)
    /\ attempted' = attempted \cup {Head(queue)}
    /\ pc' = "init"
    /\ ollama' = "unchecked"
    /\ requests' = 0
    /\ allOk' = TRUE
    /\ started' = <<>>
    /\ active' = {}
    /\ UNCHANGED <<disk, logdir, run, lastCall, logged, mainpc, batch, harnessVars, valVars>>

\* process_video builds the five agents; TranscriberAgent loads the
\* recogniser's model and re-raises when that fails
InitAgents ==
    /\ pc = "init"
    /\ \E loaded \in BOOLEAN :
          /\ pc' = IF loaded THEN "denoise" ELSE "failed"
          /\ allOk' = (allOk /\ loaded)
    /\ UNCHANGED <<disk, logdir, run, lastCall, logged, requests, started, active,
                   mainpc, batch, queue, current, attempted, ollama, harnessVars, valVars>>

\* Step 1: denoise_agent.process_file(video_filename)
Step1Denoise ==
    /\ pc = "denoise"
    /\ StartStage("denoise", <<current>>)
    /\ UNCHANGED <<mainVars, harnessVars, valVars>>

\* Steps 2 to 5: run() of the stage, over the files it finds in its folder
StepRun(stage) ==
    /\ pc = stage
    /\ \E order \in Orderings(Discovered(stage, disk)) :
          StartStage(stage, FilesInOrder(stage, order))
    /\ UNCHANGED <<mainVars, harnessVars, valVars>>

Step2Transcribe == StepRun("transcribe")
Step3Edit == StepRun("llm_editing")
Step4Cut == StepRun("video_segment_edit")
Step5Timeline == StepRun("timeline_generation")

\* the capabilities as the orchestrator meets them: per stage, the run in
\* which everything works and the runs in which one capability fails
PipelineEnvs(stage) ==
    CASE stage = "denoise" -> {e \in DenoiseEnvs : e.reduce = "ok" /\ e.remux = "ok"}
      [] stage = "transcribe" ->
            {[whisper |-> [raised |-> TRUE, segments |-> <<>>]],
             [whisper |-> [raised |-> FALSE, segments |-> <<>>]],
             [whisper |-> [raised |-> FALSE,
                           segments |-> <<[start |-> 0, end |-> 4, text |-> <<"h">>]>>]]}
      [] stage = "llm_editing" -> {[llm |-> Errors(n)] : n \in {0, 1, max_retries + 1}}
      [] stage = "video_segment_edit" ->
            {e \in CutEnvs : e.extract[1] # "fail_partial"
                               /\ \A i \in DOMAIN e.extract : i > 1 => e.extract[i] = "ok"}
      [] stage = "timeline_generation" -> {e \in TimelineEnvs : e.probe.width # 1280}

\* the running stage processes its next file
StageProcessesFile ==
    /\ pc \in StageSet
    /\ ProcessItem(PipelineEnvs(pc))
    /\ UNCHANGED <<mainVars, harnessVars, valVars>>

\* the running stage returns and process_video moves to its next step
StageReturns ==
    /\ pc \in StageSet
    /\ ReturnStage
    /\ pc' = IF run.raised THEN "failed" ELSE NextAfter(pc)
    /\ UNCHANGED <<mainpc, batch, queue, current, attempted, ollama, harnessVars, valVars>>

\* CheckOllama without the raise: step 3 goes on whatever the check returned
CheckOllama_Ignored ==
    /\ pc = "check"
    /\ \E up \in BOOLEAN :
          /\ ollama' = IF up THEN "up" ELSE "down"
          /\ pc' = "llm_editing"
          /\ allOk' = (allOk /\ up)
    /\ UNCHANGED <<disk, logdir, run, lastCall, logged, requests, started, active,
                   mainpc, batch, queue, current, attempted, harnessVars, valVars>>

\* Step 3 begins with check_ollama_availability(); False raises RuntimeError
CheckOllama ==
    /\ pc = "check"
    /\ \E up \in BOOLEAN :
          /\ ollama' = IF up THEN "up" ELSE "down"
          /\ pc' = IF up THEN "llm_editing" ELSE "failed"
          /\ allOk' = (allOk /\ up)
    /\ UNCHANGED <<disk, logdir, run, lastCall, logged, requests, started, active,
                   mainpc, batch, queue, current, attempted, harnessVars, valVars>>

\* an exception in process_video: the except clause re-raises, the finally
\* clause calls sys.exit(1); SystemExit is not an Exception, so neither
\* except clause of main() catches it and the process ends with status 1
ProcessVideoFails ==
    /\ pc = "failed"
    /\ pc' = "idle"
    /\ mainpc' = "exit1"
    /\ UNCHANGED <<machineVars, batch, queue, current, attempted, ollama, harnessVars, valVars>>

\* process_video logs "Pipeline completed successfully" and returns
ProcessVideoCompletes ==
    /\ pc = "completed"
    /\ pc' = "idle"
    /\ UNCHANGED <<machineVars, mainpc, batch, queue, current, attempted, ollama,
                   harnessVars, valVars>>

\* main() has no file left and returns
MainReturns ==
    /\ mainpc = "loop"
    /\ pc = "idle"
    /\ queue = <<>>
    /\ mainpc' = "exit0"
    /\ UNCHANGED <<machineVars, batch, queue, current, attempted, pc, ollama,
                   harnessVars, valVars>>

Next ==
    \/ MainDirectory
    \/ MainSingleFile
    \/ ProcessVideoStart
    \/ InitAgents
    \/ Step1Denoise
    \/ Step2Transcribe
    \/ Step3Edit
    \/ Step4Cut
    \/ Step5Timeline
    \/ StageProcessesFile
    \/ StageReturns
    \/ CheckOllama
    \/ ProcessVideoFails
    \/ ProcessVideoCompletes
    \/ MainReturns

Spec == Init /\ [][Next]_vars

---------------------------------------------------------------------------
(* Stage harness: one stage run on its own, and run again, on an artifact  *)
(* tree that holds for each video the artifacts of a pipeline run up to    *)
(* some stage, sound or defective.                                         *)

MaxRuns == 2

Seg(start, end, text) == JObj([start |-> JNum(start), end |-> JNum(end), text |-> JStr(text)])

Transcript(segments) == JObj([segments |-> JList(segments)])

SoundTranscript == Transcript(<<Seg(5, 7, <<"h">>), Seg(0, 4, <<"h">>)>>)
EmptyTranscript == Transcript(<<>>)
BadTimeTranscript == Transcript(<<Seg(0, 4, <<"h">>), Seg(2, 2, <<"h">>)>>)
NonRecordTranscript == Transcript(<<JNum(5)>>)
NotJson == [t |-> "garbage"]

\* the artifacts of one video, by the stage a pipeline run reached for it;
\* "video" is the file the timeline stage looks for in edited_segments
Artifacts(name, upto, content, video) ==
    LET stem == SplitExt(name)
        source == SourceVideo(name)
        wav == DenoisedAudio(ExtractedAudio(source))
        files ==
          (IF upto >= 1 THEN {<<Path(InputDir, name), source>>} ELSE {})
          \cup (IF upto >= 2
                THEN {<<Path(Dirs.denoised, stem \o <<"_clean", ".wav">>), wav>>,
                      <<Path(Dirs.denoised, name), RemuxedVideo(source, wav)>>}
                ELSE {})
          \cup (IF upto >= 3
                THEN {<<Path(Dirs.transcripts, stem \o <<"_transcript", ".json">>), content>>}
                ELSE {})
          \cup (IF upto >= 4
                THEN {<<Path(Dirs.edited, stem \o <<"_llm_cleaned", ".json">>), content>>}
                ELSE {})
          \cup (IF video
                THEN {<<Path(Dirs.edited_segments, name), RemuxedVideo(source, wav)>>}
                ELSE {})
    IN files

Profiles(name) ==
    {Artifacts(name, upto, SoundTranscript, FALSE) : upto \in 0..4}
    \cup {Artifacts(name, 4, content, TRUE) :
             content \in {SoundTranscript, EmptyTranscript, BadTimeTranscript,
                          NonRecordTranscript, NotJson}}

\* the first video takes every profile, the others are absent or complete
HarnessProfiles(name) ==
    IF name = <<VideoNames[1], ".mp4">> THEN Profiles(name)
    ELSE {Artifacts(name, 0, SoundTranscript, FALSE), Artifacts(name, 4, SoundTranscript, TRUE)}

\* the artifact tree made of one profile per video
TreeOf(choice) ==
    LET entries == UNION {choice[name] : name \in DOMAIN choice} IN
    [q \in {e[1] : e \in entries} |-> (CHOOSE e \in entries : e[1] = q)[2]]

InitStage ==
    /\ \E choice \in [InputVideos -> UNION {HarnessProfiles(name) : name \in InputVideos}] :
          /\ \A name \in InputVideos : choice[name] \in HarnessProfiles(name)
          /\ disk = TreeOf(choice)
    /\ logdir = <<>>
    /\ run = NoRun
    /\ lastCall = NoCall
    /\ logged = {}
    /\ requests = 0
    /\ allOk = TRUE
    /\ started = <<>>
    /\ active = {}
    /\ MainIdle
    /\ HarnessIdle
    /\ ValidateIdle

\* run() of a stage is called, for the first time or again: it lists its
\* folder
HarnessRun(stage) ==
    /\ runs < MaxRuns
    /\ started # <<>> => started[Len(started)] = stage
    /\ \E order \in Orderings(Discovered(stage, disk)) :
          StartStage(stage, FilesInOrder(stage, order))
    /\ runs' = runs + 1
    /\ UNCHANGED <<mainVars, world, snapshot, valVars>>

HarnessProcess ==
    /\ ProcessItem(Envs(run.stage))
    /\ UNCHANGED <<mainVars, harnessVars, valVars>>

HarnessReturn ==
    /\ ReturnStage
    /\ UNCHANGED <<mainVars, harnessVars, valVars>>

NextStage ==
    \/ \E stage \in StageSet : HarnessRun(stage)
    \/ HarnessProcess
    \/ HarnessReturn

SpecStage == InitStage /\ [][NextStage]_vars

---------------------------------------------------------------------------
(* Rerun harness: one stage is run and then run again on the same artifact *)
(* tree, every external capability answering the second time as it did the *)
(* first; the tree the first run left is kept for comparison.              *)

\* run() of the stage is called, for the first time or again; os.listdir
\* gives the files in any order the first time and in that order afterwards
RerunStart(stage) ==
    /\ runs < MaxRuns
    /\ started # <<>> => started[Len(started)] = stage
    /\ \E order \in (IF runs = 0 THEN Orderings(Discovered(stage, disk)) ELSE {world.order}) :
          /\ StartStage(stage, FilesInOrder(stage, order))
          /\ world' = [world EXCEPT !.order = order]
    /\ runs' = runs + 1
    /\ UNCHANGED <<mainVars, snapshot, valVars>>

\* process_file on the next file: the capabilities answer freely in the first
\* run and as recorded in the later ones
RerunProcess ==
    /\ run.todo # <<>>
    /\ LET file_name == Head(run.todo) IN
       \E env \in (IF file_name \in DOMAIN world.envs THEN {world.envs[file_name]}
                   ELSE Envs(run.stage)) :
          /\ ProcessItem({env})
          /\ world' = [world EXCEPT !.envs = [f \in DOMAIN world.envs \cup {file_name} |->
                                                IF f = file_name THEN env ELSE world.envs[f]]]
    /\ UNCHANGED <<mainVars, runs, snapshot, valVars>>

\* run() returns; the tree the first run leaves is recorded
RerunReturn ==
    /\ ReturnStage
    /\ snapshot' = IF runs = 1 THEN disk ELSE snapshot
    /\ UNCHANGED <<mainVars, runs, world, valVars>>

NextRerun ==
    \/ \E stage \in StageSet : RerunStart(stage)
    \/ RerunProcess
    \/ RerunReturn

SpecRerun == InitStage /\ [][NextRerun]_vars

---------------------------------------------------------------------------
(* Timeline harness: the timeline stage run once on one video whose        *)
(* cleaned transcript is any list of valid segments, in any order and      *)
(* overlapping or not, with times on a grid of a third of a millisecond.   *)

MaxClips == 3
MaxTick == 6

\* the end of a segment that retains a millisecond more than an hour
LongEnd == (3600 * 1000 + 1) * TicksPerMs

ValidSegments ==
    {Seg(p[1], p[2], <<"h">>) :
        p \in {q \in (0..MaxTick) \X (0..MaxTick) : q[1] < q[2]}}

\* the lists of short segments on the grid, and one long segment
ValidTranscripts ==
    {Transcript(l) : l \in UNION {[1..n -> ValidSegments] : n \in 1..MaxClips}}
    \cup {Transcript(<<Seg(0, LongEnd, <<"h">>)>>)}

TimelineVideo == <<VideoNames[1], ".mp4">>

InitTimeline ==
    /\ \E content \in ValidTranscripts :
          disk = TreeOf([name \in {TimelineVideo} |-> Artifacts(name, 4, content, TRUE)])
    /\ logdir = <<>>
    /\ run = NoRun
    /\ lastCall = NoCall
    /\ logged = {}
    /\ requests = 0
    /\ allOk = TRUE
    /\ started = <<>>
    /\ active = {}
    /\ MainIdle
    /\ HarnessIdle
    /\ ValidateIdle

\* timeline_generator.run() is called
TimelineRun ==
    /\ runs = 0
    /\ \E order \in Orderings(Discovered("timeline_generation", disk)) :
          StartStage("timeline_generation", FilesInOrder("timeline_generation", order))
    /\ runs' = runs + 1
    /\ UNCHANGED <<mainVars, world, snapshot, valVars>>

NextTimeline ==
    \/ TimelineRun
    \/ HarnessProcess
    \/ HarnessReturn

SpecTimeline == InitTimeline /\ [][NextTimeline]_vars

---------------------------------------------------------------------------
(* Validator harness: a bounded family of values, well-formed transcripts  *)
(* and malformed ones, each handed to the validators.                      *)

MaxSegs == 2

Absent == [t |-> "absent"]
StartValues == {Absent, JNum(-1), JNum(0), JNum(1), JStr(<<"x">>)}
EndValues == {Absent, JNum(0), JNum(1), JNull}
TextValues == {Absent, JStr(<<"h">>), JStr(<<" ">>)}

\* the JSON object with the given fields, Absent ones left out
SegmentObject(start, end, text) ==
    LET fields == [start |-> start, end |-> end, text |-> text]
        present == {k \in DOMAIN fields : fields[k] # Absent}
    IN JObj([k \in present |-> fields[k]])

SegmentElements ==
    {SegmentObject(s, e, x) : s \in StartValues, e \in EndValues, x \in TextValues}
    \cup {JNum(5), JNull}

SegmentLists == UNION {[1..n -> SegmentElements] : n \in 0..MaxSegs}

TranscriptValues ==
    {JObj([segments |-> JList(l)]) : l \in SegmentLists}
    \cup {JList(<<>>), JObj(<<>>), JObj([segments |-> JNull])}

InitValidate ==
    /\ transcript \in TranscriptValues
    /\ verdict = NoVerdict
    /\ CallIdle
    /\ MachineIdle
    /\ MainIdle
    /\ HarnessIdle

\* one call of validate_transcript of the given agent on the value
Validate(variant) ==
    /\ verdict.variant # variant
    /\ verdict' = [variant |-> variant, result |-> validate_transcript(variant, transcript),
                   check |-> FailedCheck(variant, transcript)]
    /\ UNCHANGED <<transcript, answers, reply, waiting, machineVars, mainVars, harnessVars>>

NextValidate == \E variant \in Variants : Validate(variant)

SpecValidate == InitValidate /\ [][NextValidate]_vars

---------------------------------------------------------------------------
(* Call harness: call_llm_api called once, the service answering the       *)
(* successive requests by any script of bounded length.                    *)

MaxScript == 5

ScriptAnswers == {"ok", "nofield"} \cup TransientErrors

Scripts == UNION {[1..n -> ScriptAnswers] : n \in 0..MaxScript}

InitCall ==
    /\ answers \in Scripts
    /\ reply = NoReply
    /\ waiting = NoWait
    /\ transcript = [t |-> "null"]
    /\ verdict = NoVerdict
    /\ MachineIdle
    /\ MainIdle
    /\ HarnessIdle

\* self.call_llm_api(prompt)
CallLLM ==
    /\ reply = NoReply
    /\ reply' = call_llm_api(answers, 0)
    /\ UNCHANGED <<answers, waiting, transcript, verdict, machineVars, mainVars, harnessVars>>

NextCall == CallLLM

SpecCall == InitCall /\ [][NextCall]_vars

---------------------------------------------------------------------------
(* Wait harness: one run of the denoiser, the LLM stage or the cutter in   *)
(* which the first external command of a process_file may never answer.    *)
(* process_file waits in subprocess.run or requests.post until the command *)
(* answers or the timeout the call was given expires.                      *)

WaitStages == {"denoise", "llm_editing", "video_segment_edit"}

\* the timeout argument of the call: requests.post(..., timeout=self.timeout);
\* no subprocess.run of the denoiser or of the cutter is given one
HasTimeout(command) == command = "POST /api/generate"

\* the capabilities as process_file meets them when its first call timed out:
\* requests raises Timeout, a RequestException; subprocess.run would raise
\* TimeoutExpired
TimedOut(stage, env) ==
    CASE stage = "llm_editing" -> [llm |-> <<"timeout">> \o env.llm]
      [] stage = "denoise" -> [env EXCEPT !.extract = "fail"]
      [] stage = "video_segment_edit" -> [env EXCEPT !.extract[1] = "fail"]

WaitRun(stage) ==
    /\ runs < 1
    /\ \E order \in Orderings(Discovered(stage, disk)) :
          StartStage(stage, FilesInOrder(stage, order))
    /\ runs' = runs + 1
    /\ UNCHANGED <<mainVars, world, snapshot, valVars>>

\* process_file on the next file issues its first external command and
\* waits for it
WaitCall ==
    /\ run.stage # "none"
    /\ run.todo # <<>>
    /\ ~ run.raised
    /\ waiting.command = "none"
    /\ \E env \in Envs(run.stage), hangs \in BOOLEAN :
          LET calls == process_file(run.stage, disk, Head(run.todo), env, "unused").calls IN
          /\ calls # <<>>
          /\ waiting' = [command |-> calls[1], bounded |-> HasTimeout(calls[1]),
                         hangs |-> hangs, env |-> env]
    /\ UNCHANGED <<machineVars, mainVars, harnessVars, transcript, verdict, answers, reply>>

\* process_file runs to its end: on a file for which it issues no external
\* command, or once the command it waits for has answered, or once the
\* timeout of the call has expired for a command that does not answer
WaitProcess ==
    /\ run.stage # "none"
    /\ run.todo # <<>>
    /\ waiting.command # "none" => ~ waiting.hangs \/ waiting.bounded
    /\ ProcessItem(IF waiting.command = "none" THEN Envs(run.stage)
                   ELSE IF waiting.hangs THEN {TimedOut(run.stage, waiting.env)}
                   ELSE {waiting.env})
    /\ waiting.command = "none" => lastCall'.calls = <<>>
    /\ waiting' = NoWait
    /\ UNCHANGED <<mainVars, harnessVars, transcript, verdict, answers, reply>>

NextWait ==
    \/ \E stage \in WaitStages : WaitRun(stage)
    \/ WaitCall
    \/ WaitProcess
    \/ HarnessReturn

\* the program is sequential: it takes its next step whenever it has one
SpecWait == InitStage /\ [][NextWait]_vars /\ WF_vars(NextWait)

---------------------------------------------------------------------------
(* Name harness: one of the stages that derive the name of the source      *)
(* video from the artifact they find is run once on the complete artifacts *)
(* of one video, whose stem is any short sequence of name parts, stage     *)
(* suffixes among them; every capability succeeds.                         *)

MaxStem == 3

StemParts == {"a", "_clean", ".wav", "_transcript", ".json"}

Stems == UNION {[1..n -> StemParts] : n \in 1..MaxStem}

NameStages == {"transcribe", "llm_editing", "timeline_generation"}

InitNames ==
    /\ \E stem \in Stems :
          disk = TreeOf([name \in {stem \o <<".mp4">>} |->
                            Artifacts(name, 4, SoundTranscript, TRUE)])
    /\ logdir = <<>>
    /\ run = NoRun
    /\ lastCall = NoCall
    /\ logged = {}
    /\ requests = 0
    /\ allOk = TRUE
    /\ started = <<>>
    /\ active = {}
    /\ MainIdle
    /\ HarnessIdle
    /\ ValidateIdle

\* run() of the stage lists its folder and replaces the suffix of each file
\* it found by ".mp4"
NameRun(stage) ==
    /\ runs = 0
    /\ \E order \in Orderings(Discovered(stage, disk)) :
          StartStage(stage, FilesInOrder(stage, order))
    /\ runs' = runs + 1
    /\ UNCHANGED <<mainVars, world, snapshot, valVars>>

\* process_file on the name run() derived
NameProcess ==
    /\ ProcessItem({env \in Envs(run.stage) : EnvOk(run.stage, env)})
    /\ UNCHANGED <<mainVars, harnessVars, valVars>>

NextNames ==
    \/ \E stage \in NameStages : NameRun(stage)
    \/ NameProcess
    \/ HarnessReturn

SpecNames == InitNames /\ [][NextNames]_vars

---------------------------------------------------------------------------
(* Claims C1 to C4: the orchestrator, under Spec.                          *)

StartedSet == {started[i] : i \in DOMAIN started}

\* the decision recorded for (file, stage), "none" when there is no document
Decision(stage, file_name) == LoggedDecision(logdir, stage, file_name)

\* C1: in a batch run a failure of process_video for one video does not
\* prevent the following ones: when main() has ended, process_video has been
\* started for every video of the input folder.
C1_BatchContinues ==
    batch /\ mainpc \in {"exit0", "exit1"} =>
        \A f \in Discovered("denoise", disk) : f \in attempted

\* C2: editor.run starts only after check_ollama_availability returned true
\* in the same process_video; when it returned false none of stages 3, 4, 5
\* starts for that video and no generate request is sent.
C2_EditRequiresOllama ==
    /\ "llm_editing" \in StartedSet => ollama = "up"
    /\ ollama = "down" =>
          /\ StartedSet \cap {"llm_editing", "video_segment_edit", "timeline_generation"} = {}
          /\ requests = 0

\* the check returned false after stages 1 and 2 and the process has ended
C2_Witness ==
    /\ ollama = "down"
    /\ started = <<"denoise", "transcribe">>
    /\ mainpc = "exit1"

\* C3: the five stages start in the order denoise, transcribe, LLM clean, cut,
\* timeline; at most one stage is active, and while the running stage has
\* files left no other stage has been started.
C3_StagesInOrder ==
    /\ Len(started) <= Len(Stages)
    /\ \A i \in DOMAIN started : started[i] = Stages[i]
    /\ Cardinality(active) <= 1
    /\ run.stage # "none" =>
          /\ active = {run.stage}
          /\ started # <<>>
          /\ started[Len(started)] = run.stage

\* all five stages have run and returned, the fourth over a file
C3_Witness ==
    /\ pc = "completed"
    /\ started = Stages
    /\ active = {}
    /\ Decision("video_segment_edit", current) # "none"

\* C4: for a single input video for which every capability succeeds, the run
\* of process_video ends with a "success" decision of all five stages and
\* with <id>_timeline.xml written.
C4_FullRunSucceeds ==
    pc = "completed" /\ allOk /\ attempted = {current} =>
        /\ \A stage \in StageSet : Decision(stage, current) = "success"
        /\ Exists(disk, Path(Dirs.timelines, SplitExt(current) \o <<"_timeline", ".xml">>))

---------------------------------------------------------------------------
(* Claims C5 to C7: the stage contract, under SpecStage.                   *)

LastDecision(entry) ==
    IF entry.decisions = <<>> THEN "none" ELSE entry.decisions[Len(entry.decisions)]

\* the error descriptions of a missing required input, over all stages
MissingInputDecisions ==
    {"File not found: Input video not found", "File not found: Cleaned audio file not found",
     "File not found: Transcript file not found", "File not found: Video file not found",
     "failed - Video file not found", "failed - Transcript file not found"}

C6_OneEntryPerCall ==
    lastCall.stage # "none" =>
        /\ Len(lastCall.decisions) = 1
        /\ LoggedDecision(logdir, lastCall.stage, lastCall.file) = lastCall.decisions[1]

\* a call that ended on a failure path after the capability was used
C6_Witness ==
    /\ lastCall.stage = "llm_editing"
    /\ lastCall.calls # <<>>
    /\ lastCall.decisions = <<"Unexpected error: Failed to call LLM API after 3 retries">>
    /\ LoggedDecision(logdir, lastCall.stage, lastCall.file) = lastCall.decisions[1]

\* C7: whatever the number of runs, the log holds exactly one document for
\* every (item, stage) that was processed and none besides, the document of
\* the most recent call holds that call's outcome only, and two different
\* (item, stage) pairs never have the same log path.
C7_LogOverwritten ==
    /\ \A q \in DOMAIN logdir : Len(logdir[q]) = 1
    /\ \A p \in logged :
          /\ LogPath(p[1], p[2]) \in DOMAIN logdir
          /\ logdir[LogPath(p[1], p[2])][1].stage = p[1]
          /\ logdir[LogPath(p[1], p[2])][1].file = p[2]
    /\ \A p1, p2 \in StageSet \X InputVideos :
          LogPath(p1[1], p1[2]) = LogPath(p2[1], p2[2]) => p1 = p2
    /\ Cardinality(DOMAIN logdir) = Cardinality(logged)
    /\ lastCall.stage # "none" /\ lastCall.decisions # <<>> =>
          logdir[LogPath(lastCall.stage, lastCall.file)] =
              <<[file |-> lastCall.file, stage |-> lastCall.stage,
                 decision |-> lastCall.decisions[Len(lastCall.decisions)]]>>

\* a rerun replaced the decision of the earlier run by a different one
C7_Witness ==
    /\ runs = 2
    /\ lastCall.stage # "none"
    /\ lastCall.previous \notin {"none", LoggedDecision(logdir, lastCall.stage, lastCall.file)}
    /\ Len(logdir[LogPath(lastCall.stage, lastCall.file)]) = 1

---------------------------------------------------------------------------
(* Claim C8: reruns, under SpecRerun.                                      *)

\* C8: once a stage was run again on the same inputs, with the capabilities
\* answering as in the first run, the artifact tree is the one the first run
\* left, the timeline documents included.
C8_RerunIdentical == runs >= 2 /\ run.stage = "none" => disk = snapshot

---------------------------------------------------------------------------
(* Claims C9, C10: the validators, under SpecValidate.                     *)

\* the value is a record with a list 'segments'
C9_HasSegmentList(value) ==
    /\ value.t = "obj"
    /\ "segments" \in DOMAIN value.obj
    /\ value.obj.segments.t = "list"

C9_Segments(value) == value.obj.segments.list

C9_HasAllFields(e) == \A k \in {"start", "end", "text"} : k \in DOMAIN e.obj

C9_NumericTimes(e) == e.obj.start.t = "num" /\ e.obj.end.t = "num"

C9_Blank(e) == \A i \in 1..Len(e.obj.text.str) : e.obj.text.str[i] = " "

\* a segment that satisfies every rule of the given variant
C9_GoodSegment(variant, e) ==
    /\ e.t = "obj"
    /\ C9_HasAllFields(e)
    /\ C9_NumericTimes(e)
    /\ e.obj.end.num > e.obj.start.num
    /\ variant = "transcriber" => e.obj.text.t = "str" /\ ~ C9_Blank(e)

C9_WellFormed(variant, value) ==
    /\ C9_HasSegmentList(value)
    /\ C9_Segments(value) # <<>>
    /\ \A i \in 1..Len(C9_Segments(value)) : C9_GoodSegment(variant, C9_Segments(value)[i])

\* every element of the list is a record (the case of C10 set apart)
C9_ElementsAreRecords(value) ==
    C9_HasSegmentList(value) =>
        \A i \in 1..Len(C9_Segments(value)) : C9_Segments(value)[i].t = "obj"

\* the value violates at least one of the seven rules
C9_Violates(variant, value) ==
    \/ ~ C9_HasSegmentList(value)
    \/ C9_Segments(value) = <<>>
    \/ \E i \in 1..Len(C9_Segments(value)) :
          LET e == C9_Segments(value)[i] IN
          /\ e.t = "obj"
          /\ \/ ~ C9_HasAllFields(e)
             \/ C9_HasAllFields(e) /\ ~ C9_NumericTimes(e)
             \/ C9_HasAllFields(e) /\ C9_NumericTimes(e) /\ e.obj.end.num <= e.obj.start.num
             \/ /\ variant = "transcriber"
                /\ "text" \in DOMAIN e.obj
                /\ e.obj.text.t = "str"
                /\ C9_Blank(e)

C9_Variants == {"transcriber", "editor"}

C10_NeverRaises == verdict.result \in {"none", "True", "False"}

---------------------------------------------------------------------------
(* Claim C11: validation before the capability, under SpecStage.           *)

\* the stages that read a transcript, with the validator each of them uses
C11_Consumers == {"llm_editing", "video_segment_edit", "timeline_generation"}
C11_Validators == {"editor", "cut", "timeline", "cli"}

\* C11: a call of process_file of a transcript-consuming stage whose inputs
\* are present and whose transcript is not a well-formed one (an empty
\* 'segments' list included) used no external capability and logged an
\* error, and all validators give one verdict on the transcript it read.
C11_RejectsBeforeCapability ==
    /\ lastCall.stage \in C11_Consumers
       /\ (\A q \in RequiredInputs(lastCall.stage, lastCall.file) : Exists(disk, q))
       /\ (\E q \in TranscriptInputs(lastCall.stage, lastCall.file) :
               ~ WellFormedTranscript(disk[q]))
       => lastCall.calls = <<>> /\ lastCall.decisions # <<"success">>
    /\ lastCall.stage \in C11_Consumers =>
          \A q \in TranscriptInputs(lastCall.stage, lastCall.file) :
             Exists(disk, q) /\ IsJson(disk[q]) =>
                \A v1, v2 \in C11_Validators :
                   validate_transcript(v1, disk[q]) = validate_transcript(v2, disk[q])

---------------------------------------------------------------------------
(* Claim C12: the clips of the timeline, under SpecTimeline.               *)

\* the time retained by the first n segments
RECURSIVE C12_Retained(_, _)
C12_Retained(segments, n) ==
    IF n = 0 THEN 0
    ELSE C12_Retained(segments, n - 1)
         + (segments[n].obj["end"].num - segments[n].obj.start.num)

C12_Segments ==
    disk[Path(Dirs.edited, SplitExt(TimelineVideo) \o <<"_llm_cleaned", ".json">>)].obj.segments.list

C12_TimelinePath == Path(Dirs.timelines, SplitExt(TimelineVideo) \o <<"_timeline", ".xml">>)

C12_OnMsGrid ==
    \A i \in DOMAIN C12_Segments :
        /\ C12_Segments[i].obj.start.num % TicksPerMs = 0
        /\ C12_Segments[i].obj["end"].num % TicksPerMs = 0

\* C12: the timeline written for n valid segments, in any order, has exactly
\* n clips in input order; clip i carries the start of segment i, its
\* duration end - start and, as offset, the time retained by the segments
\* before it (each as written, to the millisecond); for times on the
\* millisecond grid the values are exact, each offset is the previous offset
\* plus the previous duration, and the first offset is 0.
C12_OffsetAdditive ==
    Exists(disk, C12_TimelinePath) =>
        LET spine == disk[C12_TimelinePath].spine IN
        /\ Len(spine) = Len(C12_Segments)
        /\ \A i \in DOMAIN spine :
              LET seg == C12_Segments[i].obj IN
              /\ spine[i].name = i
              /\ spine[i].start = time_to_seconds_string(seg.start.num)
              /\ spine[i].duration = time_to_seconds_string(seg["end"].num - seg.start.num)
              /\ spine[i].offset = time_to_seconds_string(C12_Retained(C12_Segments, i - 1))
        /\ spine[1].offset = 0
        /\ C12_OnMsGrid =>
              \A i \in DOMAIN spine :
                 LET seg == C12_Segments[i].obj IN
                 /\ spine[i].start * TicksPerMs = seg.start.num
                 /\ spine[i].duration * TicksPerMs = seg["end"].num - seg.start.num
                 /\ i > 1 => spine[i].offset = spine[i - 1].offset + spine[i - 1].duration

\* a timeline of three clips cut from out-of-order segments on the
\* millisecond grid, the second clip placed right after the first
C12_Witness ==
    /\ Exists(disk, C12_TimelinePath)
    /\ C12_OnMsGrid
    /\ Len(C12_Segments) = 3
    /\ C12_Segments[1].obj.start.num > C12_Segments[2].obj.start.num
    /\ disk[C12_TimelinePath].spine[2].offset = 1
    /\ disk[C12_TimelinePath].spine[3].offset = 3

---------------------------------------------------------------------------
(* Claims C13 to C15: the retry loop of call_llm_api, under SpecCall.      *)

\* the number of transient failures the script begins with
RECURSIVE LeadingFailures(_)
LeadingFailures(s) ==
    IF s # <<>> /\ Head(s) \in TransientErrors THEN 1 + LeadingFailures(Tail(s)) ELSE 0

\* the answer to the request that follows the leading failures
AnswerAfterFailures ==
    IF LeadingFailures(answers) = Len(answers) THEN "ok"
    ELSE answers[LeadingFailures(answers) + 1]

\* C13: a call whose first N requests fail transiently, N < max_retries, and
\* whose next request succeeds returns the successful response after exactly
\* N + 1 requests.
C13_RetryThenSuccess ==
    /\ reply # NoReply
    /\ LeadingFailures(answers) < max_retries
    /\ AnswerAfterFailures = "ok"
    => reply.result = "ok" /\ reply.requests = LeadingFailures(answers) + 1

\* two failed requests and then the successful one
C13_Witness ==
    /\ LeadingFailures(answers) = 2
    /\ reply.result = "ok"
    /\ reply.requests = 3

\* C14: a call that fails transiently on every request ends in a permanent
\* failure after exactly max_retries requests.
C14_FailsAfterMaxRetries ==
    /\ reply # NoReply
    /\ LeadingFailures(answers) = Len(answers)
    /\ reply.result = "RuntimeError"
    => reply.requests = max_retries

\* C15: the wait that follows the k-th failed request (k from 0) is 2^k
\* seconds, there is a wait after every failed request but the last one of a
\* call that gives up, and the permanent failure carries the error of the
\* last request.
C15_Backoff ==
    reply # NoReply =>
        /\ \A k \in DOMAIN reply.sleeps : reply.sleeps[k] = 2 ^ (k - 1)
        /\ reply.result \in {"ok", "KeyError"} =>
              Len(reply.sleeps) = LeadingFailures(answers)
        /\ reply.result = "RuntimeError" =>
              /\ Len(reply.sleeps) = reply.requests - 1
              /\ reply.cause = answers[reply.requests]

\* a call that gave up after waits of 1, 2 and 4 seconds, the last error
\* being of another kind than the earlier ones
C15_Witness ==
    /\ reply.result = "RuntimeError"
    /\ reply.sleeps = <<1, 2, 4>>
    /\ answers[1] = "error"
    /\ reply.cause = "timeout"

---------------------------------------------------------------------------
(* Claim C16: a failed segment aborts the item, under SpecRerun.           *)

\* the script makes the call of some segment fail for good: a reply without
\* 'response', or more transient failures in a row than there are retries
C16_UltimatelyFails(s) ==
    \/ \E i \in DOMAIN s : s[i] = "nofield"
    \/ \E i \in DOMAIN s : \A j \in i..(i + max_retries) :
          j \in DOMAIN s /\ s[j] \in TransientErrors

C16_Errors ==
    {"Unexpected error: Failed to call LLM API after 3 retries", "Unexpected error: 'response'"}

\* C16: when process_file of the LLM stage reads a well-formed transcript and
\* the call of one of its segments fails for good, the call writes nothing
\* to the artifact tree (no cleaned transcript, not even a partial one), sends
\* no request after the failed one and logs the error.
C16_AbortsItem ==
    [][(/\ run.stage = "llm_editing"
        /\ run.todo # <<>>
        /\ lastCall' # lastCall
        /\ RequiredInputs("llm_editing", Head(run.todo)) \subseteq DOMAIN disk
        /\ \A q \in RequiredInputs("llm_editing", Head(run.todo)) : WellFormedTranscript(disk[q])
        /\ C16_UltimatelyFails(world'.envs[Head(run.todo)].llm))
       => /\ disk' = disk
          /\ Len(lastCall'.decisions) = 1
          /\ lastCall'.decisions[1] \in C16_Errors
          /\ LoggedDecision(logdir', "llm_editing", Head(run.todo)) = lastCall'.decisions[1]
          /\ Len(lastCall'.calls) <= Len(world'.envs[Head(run.todo)].llm)]_vars

\* the first segment was cleaned and the call of the second one failed after
\* its retries; no cleaned transcript exists
C16_Witness ==
    /\ lastCall.stage = "llm_editing"
    /\ lastCall.decisions = <<"Unexpected error: Failed to call LLM API after 3 retries">>
    /\ Len(lastCall.calls) = max_retries + 2
    /\ lastCall.file \in DOMAIN world.envs
    /\ world.envs[lastCall.file].llm = <<"ok">> \o Errors(max_retries + 1)
    /\ ~ Exists(disk, Path(Dirs.edited, SplitExt(lastCall.file) \o <<"_llm_cleaned", ".json">>))

---------------------------------------------------------------------------
(* Claim C17: segments outside the source, under SpecStage.                *)

\* the duration of the source videos, in ticks: the segment (5, 7) of the
\* transcripts of the artifact trees ends after it
SourceDuration == 6

C17_Transcript ==
    disk[Path(Dirs.edited, SplitExt(lastCall.file) \o <<"_llm_cleaned", ".json">>)]

C17_InBounds(segments) ==
    {i \in DOMAIN segments :
        /\ segments[i].obj.start.num < SourceDuration
        /\ segments[i].obj["end"].num <= SourceDuration}

\* C17: a call of process_file of the cutting stage on a well-formed
\* transcript extracts no clip for a segment that ends after the source
\* video: it runs at most one extraction per in-bounds segment.
C17_SkipsOutOfBounds ==
    /\ lastCall.stage = "video_segment_edit"
    /\ RequiredInputs("video_segment_edit", lastCall.file) \subseteq DOMAIN disk
    /\ WellFormedTranscript(C17_Transcript)
    => Cardinality({i \in DOMAIN lastCall.calls : lastCall.calls[i] = "ffmpeg trim"})
          <= Cardinality(C17_InBounds(C17_Transcript.obj.segments.list))

---------------------------------------------------------------------------
(* Claims C18, C19: temporary artifacts.                                   *)

\* the temporary artifacts of the denoiser and of the cutter
C18_Temporary(q) ==
    \/ q.dir = TempDir
    \/ q.dir = Dirs.denoised /\ EndsWith(q.name, <<"_raw", ".wav">>)

\* C18 (under SpecStage): whenever process_file of a stage has returned, on
\* whatever path, the artifact tree holds no temporary artifact.
C18_NoTemporaryLeft == \A q \in DOMAIN disk : ~ C18_Temporary(q)

C19_Env == world.envs[lastCall.file]

\* C19 (under SpecRerun): the decision of the denoiser and of the cutter is
\* that of the capabilities, never that of the cleanup: "success" when the
\* inputs are sound and every command succeeded, and the error of the command
\* that failed otherwise.
C19_CleanupNeverDecides ==
    /\ lastCall.stage \in {"denoise", "video_segment_edit"}
    /\ lastCall.file \in DOMAIN world.envs
    /\ RequiredInputs(lastCall.stage, lastCall.file) \subseteq DOMAIN disk
    /\ \A q \in TranscriptInputs(lastCall.stage, lastCall.file) : WellFormedTranscript(disk[q])
    => /\ EnvOk(lastCall.stage, C19_Env) => lastCall.decisions = <<"success">>
       /\ lastCall.stage = "video_segment_edit" =>
             /\ (\E i \in DOMAIN C19_Env.extract : C19_Env.extract[i] # "ok")
                   => lastCall.decisions = <<"failed - FFmpeg segment creation failed">>
             /\ (\A i \in DOMAIN C19_Env.extract : C19_Env.extract[i] = "ok")
                   /\ C19_Env.concat # "ok"
                   => lastCall.decisions = <<"failed - FFmpeg concatenation failed">>

---------------------------------------------------------------------------
(* Claim C20: data flows forward, under Spec.                              *)

\* the folders a stage writes artifacts to, temporary ones included
C20_Outputs(stage) ==
    CASE stage = "denoise" -> {DenoiseFolders.audio_output, DenoiseFolders.video_output}
      [] stage = "transcribe" -> {TranscriberFolders.output_folder}
      [] stage = "llm_editing" -> {EditorFolders.output_folder}
      [] stage = "video_segment_edit" -> {CutFolders.output_folder, TempDir}
      [] stage = "timeline_generation" -> {TimelineFolders.output_folder}

\* the input folder and the folders of the stages before the given one
C20_Before(stage) ==
    {InputDir} \cup UNION {C20_Outputs(Stages[j]) :
                              j \in {i \in DOMAIN Stages : \A k \in 1..i : Stages[k] # stage}}

\* the paths whose presence or content differs between two artifact trees
C20_Changed(fs, after) ==
    {q \in DOMAIN fs \cup DOMAIN after :
        IF q \in DOMAIN fs /\ q \in DOMAIN after THEN fs[q] # after[q] ELSE TRUE}

\* C20 (under Spec): every step of the orchestrated pipeline that changes the
\* artifact tree or the decision log is a process_file call of the running
\* stage; it changes only paths in that stage's own folders, none of them a
\* folder of an earlier stage or the input folder, it leaves every input of
\* the call as it was, and in the log it changes only the entry of that stage
\* and file.
C20_ForwardOnly ==
    [][IF run.stage = "none" \/ run.todo = <<>>
       THEN disk' = disk /\ logdir' = logdir
       ELSE /\ \A q \in C20_Changed(disk, disk') :
                  /\ q.dir \in C20_Outputs(run.stage)
                  /\ q.dir \notin C20_Before(run.stage)
            /\ \A q \in RequiredInputs(run.stage, Head(run.todo)) :
                  q \notin C20_Changed(disk, disk')
            /\ C20_Changed(logdir, logdir') \subseteq {LogPath(run.stage, Head(run.todo))}
      ]_vars

\* the cutter has written its output for a video whose denoised video and
\* cleaned transcript, the artifacts of stages 1 and 3, are in the tree
C20_Witness ==
    /\ pc = "video_segment_edit"
    /\ lastCall.stage = "video_segment_edit"
    /\ lastCall.decisions = <<"success">>
    /\ RequiredInputs("video_segment_edit", lastCall.file) \subseteq DOMAIN disk
    /\ Exists(disk, Path(CutFolders.output_folder,
                         SplitExt(lastCall.file) \o <<"_video_clean", ".mp4">>))

---------------------------------------------------------------------------
(* Claims C21, C22: failures of the timeline stage, under SpecStage.       *)

C21_TranscriptPath(file_name) ==
    Path(TimelineFolders.transcript_folder, SplitExt(file_name) \o <<"_llm_cleaned", ".json">>)

C21_TimelinePath(file_name) ==
    Path(TimelineFolders.output_folder, SplitExt(file_name) \o <<"_timeline", ".xml">>)

\* C21: process_file of the timeline stage on a transcript whose segment list
\* is empty writes nothing to the artifact tree, probes no video and logs one
\* decision, which is the validation error.
C21_EmptyIsFatal ==
    [][(/\ run.stage = "timeline_generation"
        /\ run.todo # <<>>
        /\ run'.done # run.done
        /\ RequiredInputs("timeline_generation", Head(run.todo)) \subseteq DOMAIN disk
        /\ disk[C21_TranscriptPath(Head(run.todo))] = EmptyTranscript)
       => /\ disk' = disk
          /\ lastCall'.calls = <<>>
          /\ lastCall'.decisions = <<"Invalid data: Invalid transcript format">>
          /\ LoggedDecision(logdir', "timeline_generation", Head(run.todo))
                = "Invalid data: Invalid transcript format"]_vars

\* the timeline stage has failed an item whose transcript is empty, and no
\* timeline document exists for it
C21_Witness ==
    /\ lastCall.stage = "timeline_generation"
    /\ RequiredInputs("timeline_generation", lastCall.file) \subseteq DOMAIN disk
    /\ disk[C21_TranscriptPath(lastCall.file)] = EmptyTranscript
    /\ lastCall.decisions = <<"Invalid data: Invalid transcript format">>
    /\ ~ Exists(disk, C21_TimelinePath(lastCall.file))

\* the probe of the video gives no metadata: probe error, no video stream,
\* unparsable frame rate or a zero denominator
C22_MetadataFails(env) == env.probe.status # "ok" \/ env.probe.denom = 0

\* C22 (under SpecRerun): when the metadata extraction fails for an item of
\* the timeline stage whose inputs are present and whose transcript is valid,
\* the call writes nothing to the artifact tree and logs the error as its one
\* decision, and run() goes on with the remaining files.
C22_MetadataFailureIsolated ==
    [][(/\ run.stage = "timeline_generation"
        /\ run.todo # <<>>
        /\ run'.done # run.done
        /\ RequiredInputs("timeline_generation", Head(run.todo)) \subseteq DOMAIN disk
        /\ WellFormedTranscript(disk[C21_TranscriptPath(Head(run.todo))])
        /\ C22_MetadataFails(world'.envs[Head(run.todo)]))
       => /\ disk' = disk
          /\ lastCall'.decisions = <<"Unexpected error: Failed to create FCPXML">>
          /\ LoggedDecision(logdir', "timeline_generation", Head(run.todo))
                = "Unexpected error: Failed to create FCPXML"
          /\ ~ run'.raised
          /\ run'.todo = Tail(run.todo)]_vars

\* a run of the timeline stage over two videos: the metadata of the first
\* could not be extracted and no timeline exists for it; the second one was
\* processed and has its timeline
C22_Witness ==
    /\ run.stage = "timeline_generation"
    /\ Len(run.done) = 2
    /\ run.done[1].file \in DOMAIN world.envs
    /\ C22_MetadataFails(world.envs[run.done[1].file])
    /\ run.done[1].decisions = <<"Unexpected error: Failed to create FCPXML">>
    /\ ~ Exists(disk, C21_TimelinePath(run.done[1].file))
    /\ run.done[2].decisions = <<"success">>
    /\ Exists(disk, C21_TimelinePath(run.done[2].file))

---------------------------------------------------------------------------
(* Claim C23: the noise-reduction model is missing, under SpecRerun.       *)

C23_ModelMissing == "Processing error: Failed to apply noise reduction: model not found"

\* C23: when the input video exists, its audio is extracted and the model path
\* does not exist, process_file of the denoiser issues no command after the
\* extraction (no noise reduction, no remux), leaves the artifact tree as it
\* was (no <id>_clean.wav, no <id>.mp4 from this call) and logs the missing
\* model as its one decision.
C23_NoModelNoCommand ==
    [][(/\ run.stage = "denoise"
        /\ run.todo # <<>>
        /\ run'.done # run.done
        /\ RequiredInputs("denoise", Head(run.todo)) \subseteq DOMAIN disk
        /\ world'.envs[Head(run.todo)].extract = "ok"
        /\ ~ world'.envs[Head(run.todo)].model_exists)
       => /\ lastCall'.calls = <<"ffmpeg extract">>
          /\ disk' = disk
          /\ lastCall'.decisions = <<C23_ModelMissing>>
          /\ LoggedDecision(logdir', "denoise", Head(run.todo)) = C23_ModelMissing]_vars

\* the denoiser has failed a video for the missing model, and the denoised
\* folder holds neither its video nor its cleaned audio
C23_Witness ==
    /\ lastCall.stage = "denoise"
    /\ lastCall.file \in DOMAIN world.envs
    /\ ~ world.envs[lastCall.file].model_exists
    /\ lastCall.decisions = <<C23_ModelMissing>>
    /\ Exists(disk, Path(InputDir, lastCall.file))
    /\ ~ Exists(disk, Path(Dirs.denoised, lastCall.file))
    /\ ~ Exists(disk, Path(Dirs.denoised, SplitExt(lastCall.file) \o <<"_clean", ".wav">>))

---------------------------------------------------------------------------
(* Claim C24: a transcription that fails validation, under SpecRerun.      *)

C24_Invalid == "Invalid data: Generated transcript failed validation"

\* the recogniser yields no segment, a segment with end <= start, or a
\* segment whose text is blank
C24_FailsValidation(raw) ==
    \/ raw = <<>>
    \/ \E i \in DOMAIN raw :
          \/ raw[i].end <= raw[i].start
          \/ \A j \in DOMAIN raw[i].text : raw[i].text[j] = " "

\* C24: when the cleaned audio exists and the recogniser yields segments that
\* fail validation, process_file of the transcriber writes nothing to the
\* artifact tree (no transcript, not even of the valid segments) and logs the
\* validation error as its one decision.
C24_HardFailure ==
    [][(/\ run.stage = "transcribe"
        /\ run.todo # <<>>
        /\ run'.done # run.done
        /\ RequiredInputs("transcribe", Head(run.todo)) \subseteq DOMAIN disk
        /\ ~ world'.envs[Head(run.todo)].whisper.raised
        /\ C24_FailsValidation(world'.envs[Head(run.todo)].whisper.segments))
       => /\ disk' = disk
          /\ lastCall'.decisions = <<C24_Invalid>>
          /\ LoggedDecision(logdir', "transcribe", Head(run.todo)) = C24_Invalid]_vars

\* the recogniser yielded a sound segment followed by one with blank text:
\* the item failed and no transcript exists for it
C24_Witness ==
    /\ lastCall.stage = "transcribe"
    /\ lastCall.file \in DOMAIN world.envs
    /\ ~ world.envs[lastCall.file].whisper.raised
    /\ Len(world.envs[lastCall.file].whisper.segments) = 2
    /\ world.envs[lastCall.file].whisper.segments[1] = [start |-> 0, end |-> 4, text |-> <<"h">>]
    /\ world.envs[lastCall.file].whisper.segments[2].text = <<" ">>
    /\ lastCall.decisions = <<C24_Invalid>>
    /\ ~ Exists(disk, Path(Dirs.transcripts,
                           SplitExt(lastCall.file) \o <<"_transcript", ".json">>))

---------------------------------------------------------------------------
(* Claim C25: external calls are bounded, under SpecWait.                  *)

\* C25: an external command that never answers comes to an end by the timeout
\* of the call: the call carries one, and process_file has the step that
\* treats the call as failed and takes it on to its decision.
C25_CallsBounded ==
    waiting.command # "none" /\ waiting.hangs => waiting.bounded /\ ENABLED WaitProcess

---------------------------------------------------------------------------
(* Claim C26: a stage without eligible input, under SpecStage.             *)

\* C26: run() of a stage whose folder holds no file with the stage's suffix
\* finds no file and does not raise, and its only step is its return: it
\* calls process_file for no file, so it issues no command and changes
\* neither the artifact tree nor the decision log.
C26_EmptyRunIsNoOp ==
    [][/\ (run.stage = "none" /\ run'.stage # "none" /\ Discovered(run'.stage, disk) = {})
          => /\ run'.found = <<>>
             /\ ~ run'.raised
             /\ disk' = disk /\ logdir' = logdir /\ logged' = logged
       /\ (run.stage # "none" /\ run.found = <<>>)
          => /\ run' = NoRun
             /\ disk' = disk /\ logdir' = logdir /\ logged' = logged
             /\ lastCall' = lastCall /\ requests' = requests
      ]_vars

\* run() of the cutter has returned on a tree that holds the input video and
\* nothing in the denoised folder: no call was made and the log is empty
C26_Witness ==
    /\ runs = 1
    /\ started = <<"video_segment_edit">>
    /\ run.stage = "none"
    /\ Discovered("video_segment_edit", disk) = {}
    /\ Discovered("denoise", disk) # {}
    /\ lastCall = NoCall
    /\ logdir = <<>>

---------------------------------------------------------------------------
(* Claim C27: the videos of a batch, under Spec.                           *)

\* C27: during process_video of a video, process_file is called for that
\* video only, and only its entries of the decision log are written: the
\* artifacts and decisions of the videos handled before are left alone.
C27_OnlyCurrentVideo ==
    [][run.todo # <<>> /\ run'.done # run.done =>
          /\ Head(run.todo) = current
          /\ C20_Changed(logdir, logdir') \subseteq {LogPath(run.stage, current)}
      ]_vars

---------------------------------------------------------------------------
(* Claim C28: the text-generation service is unreachable, under Spec.      *)

\* C28: when process_video has ended because check_ollama_availability
\* returned false, the decision log holds an entry for the current video that
\* records this failure: an entry other than those of stages 1 and 2, the
\* only stages that ran.
C28_PreconditionFailureLogged ==
    ollama = "down" /\ pc = "idle" /\ mainpc = "exit1" =>
        \E n \in DOMAIN logdir : \E i \in DOMAIN logdir[n] :
            /\ logdir[n][i].file = current
            /\ logdir[n][i].stage \notin {"denoise", "transcribe"}

---------------------------------------------------------------------------
(* Claim C29: the check that is reported, under SpecValidate.              *)

\* the transcript violates check k of the list of checks, each check being
\* read on the whole transcript once the checks before it are passed
C29_Violated(k, variant, value) ==
    CASE k = 1 -> ~ (value.t = "obj" /\ "segments" \in DOMAIN value.obj)
      [] k = 2 -> ~ C9_HasSegmentList(value)
      [] k = 3 -> C9_Segments(value) = <<>>
      [] k = 4 -> \E i \in 1..Len(C9_Segments(value)) : ~ C9_HasAllFields(C9_Segments(value)[i])
      [] k = 5 -> \E i \in 1..Len(C9_Segments(value)) : ~ C9_NumericTimes(C9_Segments(value)[i])
      [] k = 6 -> \E i \in 1..Len(C9_Segments(value)) :
                     C9_Segments(value)[i].obj.end.num <= C9_Segments(value)[i].obj.start.num
      [] k = 7 -> /\ variant = "transcriber"
                  /\ \E i \in 1..Len(C9_Segments(value)) :
                        LET e == C9_Segments(value)[i] IN e.obj.text.t # "str" \/ C9_Blank(e)

\* the lowest-numbered violated check, 0 when there is none
RECURSIVE C29_LowestFrom(_, _, _)
C29_LowestFrom(k, variant, value) ==
    IF k > 7 THEN 0
    ELSE IF C29_Violated(k, variant, value) THEN k
    ELSE C29_LowestFrom(k + 1, variant, value)

C29_Variants == {"timeline", "transcriber"}

\* C29: when validate_transcript (timeline and transcriber variants) rejects
\* a transcript whose elements are records, the check it reports is the
\* lowest-numbered check the transcript violates.
C29_LowestCheckReported ==
    /\ verdict.variant \in C29_Variants
    /\ verdict.result = "False"
    /\ C9_ElementsAreRecords(transcript)
    => verdict.check = C29_LowestFrom(1, verdict.variant, transcript)

---------------------------------------------------------------------------
(* Claim C30: the times of an accepted segment, under SpecValidate.        *)

C30_Variants == {"transcriber", "editor", "cut", "timeline"}

\* C30: every segment of a transcript that validate_transcript of a stage
\* accepts has start >= 0 and end > start.
C30_AcceptedTimes ==
    verdict.variant \in C30_Variants /\ verdict.result = "True" =>
        \A i \in 1..Len(C9_Segments(transcript)) :
            /\ C9_Segments(transcript)[i].obj.start.num >= 0
            /\ C9_Segments(transcript)[i].obj.end.num > C9_Segments(transcript)[i].obj.start.num

---------------------------------------------------------------------------
(* Claim C31: the frame duration of the timeline format, under SpecRerun.  *)

\* C31 (under SpecRerun): when the timeline stage writes the timeline of an
\* item whose video is probed at num/denom frames per second, the
\* frameDuration of the format record, a count of 1/100000 s, is exactly
\* denom/num seconds.
C31_ExactFrameDuration ==
    [][(/\ run.stage = "timeline_generation"
        /\ run.todo # <<>>
        /\ run'.done # run.done
        /\ lastCall'.decisions = <<"success">>)
       => LET probe == world'.envs[Head(run.todo)].probe
              written == disk'[C21_TimelinePath(Head(run.todo))]
          IN written.format.frameDuration * probe.num = 100000 * probe.denom]_vars

---------------------------------------------------------------------------
(* Claim C32: the clip strings off the millisecond grid, under             *)
(* SpecTimeline.                                                           *)

\* C32 (under SpecTimeline): in the timeline written for any valid segment
\* list with times on a grid of a third of a millisecond, the offset written
\* on each clip after the first equals the offset written on the clip before
\* it plus the duration written on that clip, each read back as the
\* millisecond value of its string.
C32_GapFreeAsWritten ==
    Exists(disk, C12_TimelinePath) =>
        LET spine == disk[C12_TimelinePath].spine IN
        \A i \in DOMAIN spine :
            i > 1 => spine[i].offset = spine[i - 1].offset + spine[i - 1].duration

---------------------------------------------------------------------------
(* Claim C33: extraction and concatenation of the cutter, under SpecRerun. *)

C33_VideoPath(file_name) == Path(CutFolders.video_input_folder, file_name)
C33_OutputPath(file_name) ==
    Path(CutFolders.output_folder, SplitExt(file_name) \o <<"_video_clean", ".mp4">>)

\* the segments of the cleaned transcript of the item
C33_SegmentsOf(fs, file_name) == fs[C21_TranscriptPath(file_name)].obj.segments.list

\* the extractions of the first n segments that exit with an error
C33_Failed(env, n) == {i \in 1..n : env.extract[i] # "ok"}

\* the commands of a call that extracts n clips, with or without the
\* concatenation after them
C33_Commands(n, concat) ==
    [i \in 1..n |-> "ffmpeg trim"] \o (IF concat THEN <<"ffmpeg concat">> ELSE <<>>)

\* C33 (under SpecRerun): for an item of the cutter whose video and valid
\* cleaned transcript are present, the commands of the call are one
\* extraction per segment up to and including the first one that fails, and
\* the concatenation after them only when none failed; a concatenation that
\* succeeds writes the clips of the segments in input order; when an
\* extraction or the concatenation fails, the call records a single
\* decision, an error, and the logged decision of the item is not "success".
C33_ExtractThenConcat ==
    [][(/\ run.stage = "video_segment_edit"
        /\ run.todo # <<>>
        /\ run'.done # run.done
        /\ RequiredInputs("video_segment_edit", Head(run.todo)) \subseteq DOMAIN disk
        /\ IsJson(disk[C21_TranscriptPath(Head(run.todo))])
        /\ CutValidate(disk[C21_TranscriptPath(Head(run.todo))]) = "True")
       => LET file_name == Head(run.todo)
              env == world'.envs[file_name]
              segments == C33_SegmentsOf(disk, file_name)
              n == Len(segments)
              failed == C33_Failed(env, n)
              first == IF failed = {} THEN n
                       ELSE CHOOSE i \in failed : \A j \in failed : i <= j
          IN
          /\ lastCall'.calls = C33_Commands(first, failed = {})
          /\ (failed = {} /\ env.concat = "ok") =>
                disk'[C33_OutputPath(file_name)] =
                    ConcatVideo([i \in 1..n |->
                        TrimmedClip(disk[C33_VideoPath(file_name)],
                                    segments[i].obj.start.num,
                                    segments[i].obj["end"].num - segments[i].obj.start.num)])
          /\ (failed # {} \/ env.concat # "ok") =>
                /\ Len(lastCall'.decisions) = 1
                /\ lastCall'.decisions[1] # "success"
                /\ LoggedDecision(logdir', "video_segment_edit", file_name) # "success"
                /\ ~ Exists(disk, C33_OutputPath(file_name)) =>
                       ~ Exists(disk', C33_OutputPath(file_name))]_vars

\* the cutter processed an item of two segments whose second extraction
\* failed: two extractions and no concatenation were run, the decision is an
\* error and there is no output
C33_Witness ==
    /\ lastCall.stage = "video_segment_edit"
    /\ lastCall.calls = <<"ffmpeg trim", "ffmpeg trim">>
    /\ lastCall.file \in DOMAIN world.envs
    /\ world.envs[lastCall.file].extract[2] # "ok"
    /\ Len(lastCall.decisions) = 1
    /\ lastCall.decisions[1] # "success"
    /\ ~ Exists(disk, C33_OutputPath(lastCall.file))

---------------------------------------------------------------------------
(* Claim C34: the name a stage derives from the artifact it found, under   *)
(* SpecNames.                                                              *)

\* C34 (under SpecNames): for every stem, the name run() hands to
\* process_file is the name of the source video, stem + ".mp4", so that its
\* base name is the stem and the input path process_file builds from it is
\* the file run() found.
C34_DerivedNameIsSource ==
    run.stage \in NameStages =>
        /\ \A i \in DOMAIN run.found : run.found[i] \in ListDir(disk, InputDir)
        /\ {SplitExt(run.found[i]) \o DiscoverySuffix[run.stage] : i \in DOMAIN run.found}
              = Discovered(run.stage, disk)

---------------------------------------------------------------------------
(* Claim C35: the three transforms of the denoise stage, under SpecRerun.  *)

C35_Transforms == <<"ffmpeg extract", "ffmpeg arnndn", "ffmpeg remux">>

\* the number of transforms the capabilities let the call start: each one
\* is started only when the one before it succeeded (the noise reduction
\* also needs its model)
C35_Started(env) ==
    IF env.extract # "ok" \/ ~ env.model_exists THEN 1
    ELSE IF env.reduce # "ok" THEN 2
    ELSE 3

C35_CleanedWav(file_name) ==
    Path(DenoiseFolders.audio_output, SplitExt(file_name) \o <<"_clean", ".wav">>)
C35_OutputMp4(file_name) == Path(DenoiseFolders.video_output, file_name)

\* C35 (under SpecRerun): for an item of the denoise stage whose source
\* video is present, the commands of the call are extract, reduce, remux in
\* that order, cut short after the first one that fails; the decision is
\* "success" exactly when all three succeeded and a single error otherwise;
\* the cleaned audio is written only when the first two succeeded and the
\* denoised video only when all three did.
C35_TransformsInOrder ==
    [][(/\ run.stage = "denoise"
        /\ run.todo # <<>>
        /\ run'.done # run.done
        /\ RequiredInputs("denoise", Head(run.todo)) \subseteq DOMAIN disk)
       => LET file_name == Head(run.todo)
              env == world'.envs[file_name]
          IN
          /\ lastCall'.calls = SubSeq(C35_Transforms, 1, C35_Started(env))
          /\ Len(lastCall'.decisions) = 1
          /\ lastCall'.decisions = <<"success">> <=> EnvOk("denoise", env)
          /\ LoggedDecision(logdir', "denoise", file_name) = lastCall'.decisions[1]
          /\ (C35_Started(env) < 3 /\ ~ Exists(disk, C35_CleanedWav(file_name)))
                => ~ Exists(disk', C35_CleanedWav(file_name))
          /\ ~ EnvOk("denoise", env) => C20_Changed(disk, disk') \subseteq
                                          {C35_CleanedWav(file_name)}
          /\ EnvOk("denoise", env) =>
                disk'[C35_OutputMp4(file_name)] =
                    RemuxedVideo(disk[Path(InputDir, file_name)],
                                 DenoisedAudio(ExtractedAudio(disk[Path(InputDir, file_name)])))]_vars

\* the noise reduction of an item failed: the extraction and the reduction
\* were run, the remux was not, the decision is an error and the item has
\* no denoised video
C35_Witness ==
    /\ lastCall.stage = "denoise"
    /\ lastCall.calls = <<"ffmpeg extract", "ffmpeg arnndn">>
    /\ Len(lastCall.decisions) = 1
    /\ lastCall.decisions[1] # "success"
    /\ ~ Exists(disk, C35_OutputMp4(lastCall.file))

---------------------------------------------------------------------------
(* Claim C36: "success" is recorded after the output is written, under     *)
(* SpecRerun.                                                              *)

\* the output artifact of the stage for the item
C36_Output(stage, file_name) ==
    LET stem == SplitExt(file_name) IN
    CASE stage = "denoise" -> Path(DenoiseFolders.video_output, file_name)
      [] stage = "transcribe" ->
            Path(TranscriberFolders.output_folder, stem \o <<"_transcript", ".json">>)
      [] stage = "llm_editing" ->
            Path(EditorFolders.output_folder, stem \o <<"_llm_cleaned", ".json">>)
      [] stage = "video_segment_edit" ->
            Path(CutFolders.output_folder, stem \o <<"_video_clean", ".mp4">>)
      [] stage = "timeline_generation" ->
            Path(TimelineFolders.output_folder, stem \o <<"_timeline", ".xml">>)

\* the content is one the stage writes for the item from the inputs it read
C36_WrittenBy(stage, file_name, before, content) ==
    CASE stage = "denoise" ->
            /\ content.t = "video" /\ content.op = "remux"
            /\ content.video = before[Path(InputDir, file_name)]
      [] stage = "transcribe" -> IsJson(content) /\ TranscriberValidate(content) = "True"
      [] stage = "llm_editing" -> IsJson(content) /\ EditorValidate(content) = "True"
      [] stage = "video_segment_edit" -> content.t = "video" /\ content.op = "concat"
      [] stage = "timeline_generation" ->
            /\ content.t = "fcpxml"
            /\ content.asset.src = Path(TimelineFolders.video_folder, file_name)

\* C36 (under SpecRerun): whenever a process_file call of any stage records
\* "success" for an item, in the logged decision or among the decisions of
\* the call, the output artifact of the stage for that item exists when the
\* call returns and holds what the stage writes for the item.
C36_SuccessAfterOutput ==
    [][(/\ run.stage # "none"
        /\ run.todo # <<>>
        /\ run'.done # run.done
        /\ \E i \in DOMAIN lastCall'.decisions : lastCall'.decisions[i] = "success")
       => /\ Exists(disk', C36_Output(run.stage, Head(run.todo)))
          /\ C36_WrittenBy(run.stage, Head(run.todo), disk,
                           disk'[C36_Output(run.stage, Head(run.todo))])
          /\ lastCall'.decisions = <<"success">>]_vars

\* the timeline stage recorded "success" for an item and the timeline of
\* the item, which did not exist before the run, is there
C36_Witness ==
    /\ lastCall.stage = "timeline_generation"
    /\ lastCall.decisions = <<"success">>
    /\ lastCall.previous = "none"
    /\ Exists(disk, C36_Output("timeline_generation", lastCall.file))

---------------------------------------------------------------------------
(* Claim C37: what the cleaning stage changes, under SpecRerun.            *)

C37_InputPath(file_name) ==
    Path(EditorFolders.transcript_input_folder, SplitExt(file_name) \o <<"_transcript", ".json">>)
C37_OutputPath(file_name) ==
    Path(EditorFolders.output_folder, SplitExt(file_name) \o <<"_llm_cleaned", ".json">>)

\* C37 (under SpecRerun): when the cleaning stage records "success" for an
\* item, the cleaned transcript it wrote has as many segments as the
\* transcript it read, in the same order, each with the fields of its input
\* segment unchanged except text; the call changes no file but the cleaned
\* transcript, so the input transcript is as it was.
C37_OnlyTextChanges ==
    [][(/\ run.stage = "llm_editing"
        /\ run.todo # <<>>
        /\ run'.done # run.done
        /\ lastCall'.decisions = <<"success">>)
       => LET file_name == Head(run.todo)
              input == disk[C37_InputPath(file_name)].obj.segments.list
              output == disk'[C37_OutputPath(file_name)].obj.segments.list
          IN
          /\ Len(output) = Len(input)
          /\ \A i \in DOMAIN input :
                /\ DOMAIN output[i].obj = DOMAIN input[i].obj
                /\ \A k \in DOMAIN input[i].obj \ {"text"} : output[i].obj[k] = input[i].obj[k]
          /\ disk'[C37_InputPath(file_name)] = disk[C37_InputPath(file_name)]
          /\ C20_Changed(disk, disk') \subseteq {C37_OutputPath(file_name)}]_vars

\* the cleaning stage wrote the cleaned transcript of an item of two
\* segments: the texts are new, the times are those of the input
C37_Witness ==
    /\ lastCall.stage = "llm_editing"
    /\ lastCall.decisions = <<"success">>
    /\ Exists(disk, C37_InputPath(lastCall.file))
    /\ Exists(disk, C37_OutputPath(lastCall.file))
    /\ LET input == disk[C37_InputPath(lastCall.file)].obj.segments.list
           output == disk[C37_OutputPath(lastCall.file)].obj.segments.list
       IN /\ Len(input) = 2
          /\ Len(output) = 2
          /\ \A i \in 1..2 : /\ output[i].obj.text # input[i].obj.text
                             /\ output[i].obj.start = input[i].obj.start
                             /\ output[i].obj["end"] = input[i].obj["end"]
          /\ input[1].obj.start.num > input[2].obj.start.num

---------------------------------------------------------------------------
(* Claim C38: a reply without 'response', under SpecRerun.                 *)

\* the script answers the first request of the item, after n < max_retries + 1
\* transport failures, with a reply that has no 'response'
C38_NoFieldAfter(s, n) ==
    /\ n <= max_retries
    /\ Len(s) > n
    /\ s[n + 1] = "nofield"
    /\ \A j \in 1..n : s[j] \in TransientErrors

\* C38 (under SpecRerun): when the cleaning stage reads a well-formed
\* transcript and the service answers the request of its first segment,
\* after n transport failures, with a success status and no 'response'
\* field, call_llm_api has retried the n transport failures only (n waits,
\* n + 1 requests) and fails with the KeyError; process_file sends no further
\* request, writes nothing and records the error as the decision of the
\* item.
C38_NoFieldNotRetried ==
    [][(/\ run.stage = "llm_editing"
        /\ run.todo # <<>>
        /\ run'.done # run.done
        /\ RequiredInputs("llm_editing", Head(run.todo)) \subseteq DOMAIN disk
        /\ \A q \in RequiredInputs("llm_editing", Head(run.todo)) : WellFormedTranscript(disk[q])
        /\ \E n \in 0..max_retries : C38_NoFieldAfter(world'.envs[Head(run.todo)].llm, n))
       => LET script == world'.envs[Head(run.todo)].llm
              n == CHOOSE k \in 0..max_retries : C38_NoFieldAfter(script, k)
              call == call_llm_api(script, 0)
          IN
          /\ call.result = "KeyError"
          /\ call.requests = n + 1
          /\ call.sleeps = [j \in 1..n |-> 2 ^ (j - 1)]
          /\ lastCall'.calls = Requests(n + 1)
          /\ lastCall'.decisions = <<"Unexpected error: 'response'">>
          /\ LoggedDecision(logdir', "llm_editing", Head(run.todo))
                = "Unexpected error: 'response'"
          /\ disk' = disk]_vars

\* the first request of an item failed in transport and was retried; the
\* reply to the second one had no 'response': two requests were sent, the
\* item failed and has no cleaned transcript
C38_Witness ==
    /\ lastCall.stage = "llm_editing"
    /\ lastCall.file \in DOMAIN world.envs
    /\ world.envs[lastCall.file].llm = <<"error", "nofield">>
    /\ lastCall.calls = Requests(2)
    /\ lastCall.decisions = <<"Unexpected error: 'response'">>
    /\ ~ Exists(disk, C37_OutputPath(lastCall.file))

---------------------------------------------------------------------------
(* Claim C39: the success report of process_video, under Spec.             *)

\* C39: when process_video reaches the statement that logs "Pipeline
\* completed successfully" for a video, each of the five stages has recorded
\* "success" for that video.
C39_SuccessReportMeansSuccess ==
    pc = "completed" => \A stage \in StageSet : Decision(stage, current) = "success"

---------------------------------------------------------------------------
(* Claim C40: the duration declared on the sequence, under SpecTimeline.   *)

\* C40 (under SpecTimeline): in the timeline written for any valid segment
\* list, the duration of the sequence element, in milliseconds, is at least
\* the offset plus the duration written on the last clip.
C40_SequenceCoversClips ==
    Exists(disk, C12_TimelinePath) =>
        LET written == disk[C12_TimelinePath]
            last == written.spine[Len(written.spine)]
        IN written.sequence.duration * 1000 >= last.offset + last.duration

====
